---- MODULE Spec2Model ----
(***************************************************************************)
(* Verification model of the NZ Freeview addon: the channel / EPG registry *)
(* cache (addon/addon.js and its promise-based revision), the streaming    *)
(* reverse proxy (server.js, both revisions) and the HLS playlist rewriter.*)
(* Times are in milliseconds, as Date.now() reports them.                  *)
(***************************************************************************)
EXTENDS Integers, Sequences, FiniteSets, TLC

\* ------------------------------------------------------------------------
\* Bounds of the model
\* ------------------------------------------------------------------------
NumCallers == 2
MaxCalls == 2
MaxTicks == 1
MaxLines == 2
MaxElapsed == 4

\* ------------------------------------------------------------------------
\* Program constants
\* ------------------------------------------------------------------------
maxRequestsPerMinute == 60
maxRequestsPerProxy == 10
RESET_PERIOD == 60000
CHANNEL_CACHE_DURATION == 60 * 60 * 1000
AUTO_UPDATE_INTERVAL == 30 * 60 * 1000
maxAttempts == 3
UPSTREAM_TIMEOUT == 30000
\* the model advances time in thirds of the upstream timeout
TimeStep == UPSTREAM_TIMEOUT \div 3

\* Date.now() when the module is loaded: any instant later than the epoch by
\* more than every cache duration (lastFetch starts at 0)
T0 == 100 * 1000 * 1000

PUBLIC_PROXY_URLS == <<"corsproxy.io", "cors.eu.org", "thingproxy", "allorigins", "cors-anywhere">>

Impls == {"addon", "part_002"}
Caches == {"channel", "epg"}

\* EPG_CACHE_DURATION differs between the two revisions of the cache
EPG_CACHE_DURATION(i) == IF i = "addon" THEN 60 * 60 * 1000 ELSE 24 * 60 * 60 * 1000

CacheDuration(i, c) == IF c = "channel" THEN CHANNEL_CACHE_DURATION ELSE EPG_CACHE_DURATION(i)

TimerId == 0
Callers == 1..NumCallers
Procs == 0..NumCallers

VARIABLES impl, now, ticks, calls, cache, procs, lastRefresh, lastReturn, completed
VARIABLES rw
VARIABLES variant, req, hpc, resp, timer, upstream, elapsed
VARIABLES conn, alive
VARIABLES hq
VARIABLES ui, rl, gu, m3u

soloVars == <<req, hpc, resp, timer, upstream, elapsed>>

proxyVars == <<variant, soloVars, conn, alive, hq>>

sideVars == <<ui, rl, gu, m3u>>

cacheVars == <<impl, now, ticks, calls, cache, procs, lastRefresh, lastReturn, completed>>

vars == <<impl, now, ticks, calls, cache, procs, lastRefresh, lastReturn, completed, rw,
          variant, req, hpc, resp, timer, upstream, elapsed, conn, alive, hq, ui, rl, gu, m3u>>

\* ------------------------------------------------------------------------
\* Snapshots and feed payloads
\* ------------------------------------------------------------------------
\* ref is the identity of the array or document object holding the items
\* (0: null, or a literal that was never stored)
NullData == [kind |-> "null", items |-> <<>>, ref |-> 0]
ListData(chs) == [kind |-> "list", items |-> chs, ref |-> 0]
EpgData(k, progs) == [kind |-> k, items |-> progs, ref |-> 0]

\* Lines of an M3U document, by the features the parser looks at.
ExtInf(chid, tvgid, name) == [t |-> "EXTINF", chid |-> chid, tvgid |-> tvgid, name |-> name, url |-> ""]
UrlLine(u) == [t |-> "URL", chid |-> "", tvgid |-> "", name |-> "", url |-> u]
CommentLine == [t |-> "COMMENT", chid |-> "", tvgid |-> "", name |-> "", url |-> ""]
BlankLine == [t |-> "BLANK", chid |-> "", tvgid |-> "", name |-> "", url |-> ""]

\* the JS expression a || b || c on strings ("" is falsy)
OrElse(a, b) == IF a # "" THEN a ELSE b

\* name.replace(/\s+/g, '-').toLowerCase() on the names the feeds below use
Slug(name) ==
    CASE name = "TVNZ 1" -> "tvnz-1"
      [] name = "Three" -> "three"
      [] name = "Bravo" -> "bravo"
      [] OTHER -> ""

NoCur == [id |-> "", name |-> "", url |-> "", set |-> FALSE]

\* if (cur.id && cur.name && cur.url)
Complete_Always(cur, url) == TRUE
Complete(cur, url) == cur.id # "" /\ cur.name # "" /\ url # ""

RECURSIVE ParseLoop(_, _, _, _)
ParseLoop(lines, i, cur, channels) ==
    IF i > Len(lines) THEN channels
    ELSE LET line == lines[i] IN
         IF line.t = "EXTINF"
         THEN ParseLoop(lines, i + 1,
                        [id |-> OrElse(line.chid, OrElse(line.tvgid, Slug(line.name))),
                         name |-> line.name, url |-> "", set |-> TRUE],
                        channels)
         ELSE IF cur.set /\ line.t = "URL"
         THEN ParseLoop(lines, i + 1, NoCur,
                        IF Complete(cur, line.url)
                        THEN Append(channels, [id |-> cur.id, name |-> cur.name, url |-> line.url])
                        ELSE channels)
         ELSE ParseLoop(lines, i + 1, cur, channels)

ParseM3U(lines) == ParseLoop(lines, 1, NoCur, <<>>)

FeedA == <<CommentLine, ExtInf("mjh-tvnz-1", "", "TVNZ 1"), UrlLine("u1"),
           ExtInf("", "three", "Three"), CommentLine, UrlLine("u2")>>
FeedB == <<ExtInf("mjh-tvnz-1", "", "TVNZ 1"), UrlLine("u1b"), UrlLine("stray"),
           ExtInf("", "", "Bravo"), ExtInf("", "", ""), UrlLine("u3")>>
ErrorPage == <<UrlLine("<html>"), BlankLine, UrlLine("</html>")>>

Feeds == {FeedA, FeedB}

\* the programme list of an edition of the XMLTV guide
EpgA == <<"p1", "p2">>

\* What the body of a feed response can turn out to be.  "m3u": a text body
\* (a playlist, or an error page / arbitrary text); "epg": a gzip'ed XMLTV
\* document; "nogzip": bytes gunzipSync rejects; "notv": a gzip'ed XML
\* document without a <tv> root; "ioerror": the body stream fails.
Payload(k, v) == [k |-> k, v |-> v]
ChannelPayloads(ok) ==
    IF ok THEN {Payload("m3u", FeedA), Payload("m3u", FeedB), Payload("m3u", ErrorPage), Payload("ioerror", <<>>)}
    ELSE {Payload("m3u", ErrorPage), Payload("ioerror", <<>>)}
EpgPayloads(ok) ==
    IF ok THEN {Payload("epg", EpgA), Payload("nogzip", <<>>), Payload("notv", <<>>), Payload("ioerror", <<>>)}
    ELSE {Payload("nogzip", <<>>), Payload("ioerror", <<>>)}
IsGood(pl) == pl.k = "epg" \/ (pl.k = "m3u" /\ pl.v \in Feeds)
Payloads(c, ok) == IF c = "channel" THEN ChannelPayloads(ok) ELSE EpgPayloads(ok)

\* ------------------------------------------------------------------------
\* The registry cache.  K is the record of the shared cache state:
\*   cache[c]  = [data, lastFetch, isUpdating (addon.js), updatePromise
\*               (promise revision: the process whose refresh is shared, 0
\*               for null)]
\*   procs[p]  = one asynchronous activation: a handler awaiting
\*               getChannels()/getEPG() (p in Callers) or the auto-update
\*               timer callback (p = TimerId)
\*   lr        = the outcome of the refresh that ended last
\*   ret       = the latest return of getChannels()/getEPG(): the cache, the
\*               value returned and, for each call that returned at that
\*               moment, how it went (path: "fresh", "started", "joined",
\*               "skipped") and how many refreshes had ended when it was made
\*   completed = per cache, how many refreshes have ended
\* ------------------------------------------------------------------------
IdleProc == [pc |-> "idle", tgt |-> "channel", pidx |-> 0, nfetch |-> 0, await |-> 0,
             tnow |-> 0, path |-> "none", rok |-> FALSE, met |-> 0]

NoRefresh == [c |-> "channel", n |-> 0, nfetch |-> 0, ok |-> FALSE,
              cause |-> "none", pre |-> [data |-> NullData, lastFetch |-> 0]]

NoReturn == [c |-> "channel", at |-> 0, res |-> NullData, who |-> {}]

\* what getChannels()/getEPG() hands back: channelCache.data, or in the
\* promise revision  channelCache.data || []
ResultOf(i, c, data) ==
    IF i = "part_002" /\ c = "channel" /\ data.kind = "null" THEN ListData(<<>>) ELSE data

\* the cache check of getChannels()/getEPG() and of the timer callback
IsEmpty(data) == data.kind = "null"
IsExpired(i, c, entry, t) == t - entry.lastFetch > CacheDuration(i, c)
NeedsRefresh(i, c, entry, t) == IsEmpty(entry.data) \/ IsExpired(i, c, entry, t)

\* (a refresh that starts although one is in flight)
UpdateInProgress_NoGuard(i, entry) == FALSE

\* the in-progress test at the head of updateChannelCache()/updateEpgCache()
UpdateInProgress(i, entry) ==
    IF i = "addon" THEN entry.isUpdating ELSE entry.updatePromise # 0

\* continuation of the timer callback once the update it awaited is over
ResumeTimer(K) ==
    LET pr == K.procs[TimerId] IN
    [K EXCEPT !.procs[TimerId] = [IdleProc EXCEPT !.pc = IF pr.tgt = "epg" THEN "timerNext" ELSE "idle",
                                                  !.tgt = pr.tgt, !.tnow = pr.tnow]]

\* getChannels()/getEPG() of p returns; first: no other call has returned in
\* this step
Return(i, K, p, first) ==
    LET pr == K.procs[p]
        c == pr.tgt
        how == [path |-> pr.path, met |-> pr.met]
    IN [K EXCEPT !.procs[p] = IdleProc,
                 !.ret = [c |-> c, at |-> K.completed[c],
                          res |-> ResultOf(i, c, K.cache[c].data),
                          who |-> IF first THEN {how} ELSE K.ret.who \cup {how}]]

RECURSIVE ResumeAll(_, _, _, _)
ResumeAll(i, K, ps, first) ==
    IF ps = {} THEN K
    ELSE LET p == CHOOSE q \in ps : TRUE IN
         IF p = TimerId THEN ResumeAll(i, ResumeTimer(K), ps \ {p}, first)
         ELSE ResumeAll(i, Return(i, K, p, first), ps \ {p}, FALSE)

Joiners(K, p) == {q \in Procs : K.procs[q].pc = "joined" /\ K.procs[q].await = p}

\* The end of the update p runs: the assignment of the parsed data and of
\* the timestamp t (when the code got that far), the finally block, then
\* the continuations of everyone awaiting the update.
\* (the update refills the array the cache already holds)
Fresh_InPlace(old, new, id) == [new EXCEPT !.ref = old.ref]

\* const channels = [] / parser.parse(...): the update builds its result in
\* a new object, id, and the assignment rebinds the cache to it
Fresh(old, new, id) == [new EXCEPT !.ref = id]

\* (a marker that stays set when the update ends)
ClearMarker_Never(i, entry) == entry

\* the finally block of the update: isUpdating = false / updatePromise = null
ClearMarker(i, entry) ==
    IF i = "addon" THEN [entry EXCEPT !.isUpdating = FALSE] ELSE [entry EXCEPT !.updatePromise = 0]

NoAssign == [set |-> FALSE, data |-> NullData, t |-> 0]
Assign(data, t) == [set |-> TRUE, data |-> data, t |-> t]
Finish(i, K, p, ok, cause, asg) ==
    LET c == K.procs[p].tgt
        old == K.cache[c]
        K1 == [K EXCEPT !.completed[c] = @ + 1,
                        !.cache[c] = ClearMarker(i, [@ EXCEPT !.data = IF asg.set THEN Fresh(@, asg.data, K.completed[c] + 1) ELSE @,
                                                              !.lastFetch = IF asg.set THEN asg.t ELSE @]),
                        !.lr = [c |-> c, n |-> K.completed[c] + 1,
                                nfetch |-> K.procs[p].nfetch,
                                ok |-> ok, cause |-> cause,
                                pre |-> [data |-> old.data, lastFetch |-> old.lastFetch]]]
    IN ResumeAll(i, K1, {p} \cup Joiners(K, p), TRUE)

\* resilientFetch after the attempt at position pidx (0: the direct fetch,
\* j: the j-th entry of the proxy list) has failed: the fetch through the
\* next proxy is issued, or the last error is thrown when none is left.
\* isRateLimited() is false throughout: a run makes at most MaxCalls
\* refreshes of at most 1 + NumProxies fetches each, one per proxy, which
\* stays below maxRequestsPerMinute and maxRequestsPerProxy; the order in
\* which the proxies are asked (getBestProxy) does not matter here.
NumProxies == Len(PUBLIC_PROXY_URLS)
NextAttempt(i, K, p, cause) ==
    LET k == K.procs[p].pidx + 1 IN
    IF k > NumProxies THEN Finish(i, K, p, FALSE, cause, NoAssign)
    ELSE [K EXCEPT !.procs[p].pc = "proxy",
                   !.procs[p].pidx = k,
                   !.procs[p].nfetch = @ + 1]

\* updateChannelCache() / updateEpgCache() called by p for cache c, up to its
\* first suspension: in addon.js the direct fetch of resilientFetch, in the
\* promise revision the fetch of the feed
Update(i, K, p, c) ==
    LET entry == K.cache[c]
        K0 == [K EXCEPT !.procs[p].tgt = c, !.procs[p].nfetch = 0, !.procs[p].pidx = 0,
                        !.procs[p].met = K.completed[c]]
    IN
    IF UpdateInProgress(i, entry)
    THEN IF i = "addon"
         THEN ResumeAll(i, [K0 EXCEPT !.procs[p].path = "skipped"], {p}, TRUE)
         ELSE [K0 EXCEPT !.procs[p].pc = "joined", !.procs[p].await = entry.updatePromise,
                         !.procs[p].path = "joined"]
    ELSE IF i = "addon"
         THEN LET K1 == [K0 EXCEPT !.cache[c].isUpdating = TRUE, !.procs[p].path = "started"] IN
              [K1 EXCEPT !.procs[p].pc = "direct", !.procs[p].nfetch = 1]
         ELSE [K0 EXCEPT !.cache[c].updatePromise = p, !.procs[p].path = "started",
                         !.procs[p].pc = "fetch", !.procs[p].nfetch = 1]

\* getChannels() / getEPG() called by p
Get(i, K, p, c, t) ==
    LET K0 == [K EXCEPT !.procs[p] = [IdleProc EXCEPT !.tgt = c]] IN
    IF NeedsRefresh(i, c, K.cache[c], t)
    THEN Update(i, K0, p, c)
    ELSE Return(i, [K0 EXCEPT !.procs[p].path = "fresh", !.procs[p].met = K.completed[c]], p, TRUE)

\* ------------------------------------------------------------------------
\* State machine of the registry cache
\* ------------------------------------------------------------------------
\* the meta and stream handlers from the point where  await getChannels()
\* has handed them allChannels, for the channel id of the request.  Reading
\* allChannels.length of null throws a TypeError, which nothing in the
\* handler catches.
HandlerIds == {"mjh-tvnz-1", "mjh-three", "unknown"}
Find(allChannels, id) == SelectSeq(allChannels.items, LAMBDA ch : ch.id = id)
defineMetaHandler(allChannels, id) ==
    IF allChannels.kind = "null" THEN [kind |-> "TypeError", meta |-> ""]
    ELSE IF Len(allChannels.items) = 0 THEN [kind |-> "meta", meta |-> ""]
    ELSE IF Find(allChannels, id) = <<>> THEN [kind |-> "meta", meta |-> ""]
    ELSE [kind |-> "meta", meta |-> id]
defineStreamHandler(allChannels, id) ==
    IF allChannels.kind = "null" THEN [kind |-> "TypeError", streams |-> <<>>]
    ELSE IF Len(allChannels.items) = 0 THEN [kind |-> "streams", streams |-> <<>>]
    ELSE IF Find(allChannels, id) = <<>> THEN [kind |-> "streams", streams |-> <<>>]
    ELSE LET channel == Find(allChannels, id)[1] IN
         IF channel.url = "" THEN [kind |-> "streams", streams |-> <<>>]
         ELSE [kind |-> "streams", streams |-> <<channel.url, "/proxy/" \o channel.url>>]

TickSteps == {CHANNEL_CACHE_DURATION + 1}
Outcomes == {"ok", "notok", "throw"}

KState == [cache |-> cache, procs |-> procs, lr |-> lastRefresh, ret |-> lastReturn,
           completed |-> completed]

SetK(K) ==
    /\ cache' = K.cache
    /\ procs' = K.procs
    /\ lastRefresh' = K.lr
    /\ lastReturn' = K.ret
    /\ completed' = K.completed

EmptyEntry == [data |-> NullData, lastFetch |-> 0, isUpdating |-> FALSE, updatePromise |-> 0]

CacheInit ==
    /\ impl \in Impls
    /\ now = T0
    /\ ticks = 0
    /\ calls = 0
    /\ cache = [c \in Caches |-> EmptyEntry]
    /\ procs = [p \in Procs |-> IF p = TimerId THEN [IdleProc EXCEPT !.tnow = T0] ELSE IdleProc]
    /\ lastRefresh = NoRefresh
    /\ lastReturn = NoReturn
    /\ completed = [c \in Caches |-> 0]

\* A long pause: d milliseconds pass, d being half an hour or more.  Every
\* fetch of resilientFetch carries a 10 s timeout, so none of them is still
\* pending afterwards; the fetches of the promise revision have no timeout
\* and may stay pending.
Tick(d) ==
    /\ ticks < MaxTicks
    /\ impl = "addon" => \A p \in Procs : procs[p].pc \notin {"direct", "proxy", "body"}
    /\ now' = now + d
    /\ ticks' = ticks + 1
    /\ UNCHANGED <<impl, calls, cache, procs, lastRefresh, lastReturn, completed, rw, proxyVars, sideVars>>

\* a handler calls getChannels() (c = "channel") or getEPG() (c = "epg")
CallGet(p, c) ==
    /\ p \in Callers
    /\ procs[p].pc = "idle"
    /\ calls < MaxCalls
    /\ calls' = calls + 1
    /\ SetK(Get(impl, KState, p, c, now))
    /\ UNCHANGED <<impl, now, ticks, rw, proxyVars, sideVars>>

\* the channel half of the auto-update callback, with the instant t the
\* callback captured when it fired
TimerChannelStep(K, t) ==
    IF t - K.cache["channel"].lastFetch > CHANNEL_CACHE_DURATION
    THEN Update("addon", K, TimerId, "channel")
    ELSE [K EXCEPT !.procs[TimerId] = [IdleProc EXCEPT !.tnow = t]]

\* the auto-update interval fires
TimerFire ==
    /\ impl = "addon"
    /\ procs[TimerId].pc = "idle"
    /\ now - procs[TimerId].tnow >= AUTO_UPDATE_INTERVAL
    /\ calls < MaxCalls
    /\ calls' = calls + 1
    /\ LET K0 == [KState EXCEPT !.procs[TimerId].tnow = now, !.procs[TimerId].path = "timer"] IN
       IF now - cache["epg"].lastFetch > EPG_CACHE_DURATION("addon")
       THEN SetK(Update("addon", K0, TimerId, "epg"))
       ELSE SetK(TimerChannelStep(K0, now))
    /\ UNCHANGED <<impl, now, ticks, rw, proxyVars, sideVars>>

\* the callback continues after  await updateEpgCache()
TimerNext ==
    /\ procs[TimerId].pc = "timerNext"
    /\ SetK(TimerChannelStep(KState, procs[TimerId].tnow))
    /\ UNCHANGED <<impl, now, ticks, calls, rw, proxyVars, sideVars>>

\* the feed (or a public proxy) answers the fetch p is awaiting, or the fetch
\* rejects (network error, timeout)
FetchResponds(p, o) ==
    /\ procs[p].pc \in {"direct", "proxy", "fetch"}
    /\ LET K == KState
           pr == procs[p]
           body == [K EXCEPT !.procs[p].pc = "body", !.procs[p].rok = (o = "ok")]
           cause == IF o = "throw" THEN "network" ELSE "status"
       IN
       CASE pr.pc = "fetch" ->
              IF o = "throw" THEN SetK(Finish(impl, K, p, FALSE, "network", NoAssign)) ELSE SetK(body)
         [] pr.pc \in {"direct", "proxy"} ->
              IF o = "ok" THEN SetK(body) ELSE SetK(NextAttempt(impl, K, p, cause))
    /\ UNCHANGED <<impl, now, ticks, calls, rw, proxyVars, sideVars>>

\* the response body has been read (text() / buffer()) and is parsed
BodyArrives(p, pl) ==
    /\ procs[p].pc = "body"
    /\ pl \in Payloads(procs[p].tgt, procs[p].rok)
    /\ LET K == KState
           c == procs[p].tgt
           cause == IF ~procs[p].rok THEN "status" ELSE "unparsable"
       IN
       CASE pl.k = "ioerror" -> SetK(Finish(impl, K, p, FALSE, "body", NoAssign))
         [] pl.k = "m3u" ->
              SetK(Finish(impl, K, p, TRUE, IF pl.v \in Feeds THEN "none" ELSE cause,
                          Assign(ListData(ParseM3U(pl.v)), now)))
         [] pl.k = "epg" ->
              SetK(Finish(impl, K, p, TRUE, "none", Assign(EpgData("epg", pl.v), now)))
         [] pl.k = "nogzip" -> SetK(Finish(impl, K, p, FALSE, cause, NoAssign))
         [] pl.k = "notv" ->
              SetK(Finish(impl, K, p, FALSE, cause, Assign(EpgData("notv", <<>>), now)))
    /\ UNCHANGED <<impl, now, ticks, calls, rw, proxyVars, sideVars>>

CacheNext ==
    \/ \E d \in TickSteps : Tick(d)
    \/ \E p \in Callers, c \in Caches : CallGet(p, c)
    \/ TimerFire
    \/ TimerNext
    \/ \E p \in Procs, o \in Outcomes : FetchResponds(p, o)
    \/ \E p \in Procs, pl \in Payloads("channel", TRUE) \cup Payloads("epg", TRUE) : BodyArrives(p, pl)

\* ------------------------------------------------------------------------
\* Properties of the registry cache
\* ------------------------------------------------------------------------
FetchPcs == {"direct", "proxy", "fetch"}
RefreshPcs == FetchPcs \cup {"body"}
InFlight(c) == {p \in Procs : procs[p].pc \in RefreshPcs /\ procs[p].tgt = c}
MaxFetchesPerRefresh == 1 + Len(PUBLIC_PROXY_URLS)

C21_EveryTickRefreshesEpg ==
    [][TimerFire => (InFlight("epg") # {})']_vars

\* the in-progress marker of cache c is set
Marker(c) == IF impl = "addon" THEN cache[c].isUpdating ELSE cache[c].updatePromise # 0

\* C22: for each cache at most one refresh is outstanding, and the
\* in-progress marker is set exactly while it is: set when the refresh
\* starts, cleared when it ends, whether it succeeded or failed
C22_MarkerTracksRefresh ==
    \A c \in Caches :
        /\ Cardinality(InFlight(c)) <= 1
        /\ Marker(c) <=> InFlight(c) # {}
        /\ (impl = "part_002" /\ Marker(c)) => InFlight(c) = {cache[c].updatePromise}

\* a refresh has failed, its marker was cleared, and a later call has
\* started a new refresh of the same cache
C22_Witness ==
    \E c \in Caches :
        /\ lastRefresh.n # 0 /\ lastRefresh.c = c /\ ~lastRefresh.ok
        /\ InFlight(c) # {}
        /\ Marker(c)

\* C23: the channel registry is swapped atomically.  Wherever another
\* handler can run the cache holds a complete parsed list together with
\* its timestamp (or nothing and no timestamp); a refresh in flight has
\* written nothing yet; after a refresh the cache holds either exactly the
\* pre-refresh list and timestamp or a new list object with a timestamp of
\* that refresh; and the list object handed to a reader has the content
\* it was handed with
C23_AtomicSwap ==
    LET e == cache["channel"]
        n == completed["channel"]
    IN /\ \/ e.data = NullData /\ e.lastFetch = 0
          \/ /\ e.data.kind = "list"
             /\ \E pl \in ChannelPayloads(TRUE) : pl.k = "m3u" /\ e.data.items = ParseM3U(pl.v)
             /\ e.lastFetch >= T0 /\ e.lastFetch <= now
       /\ e.data.ref <= n
       /\ (lastRefresh.c = "channel" /\ lastRefresh.n = n /\ n # 0) =>
             \/ e.data = lastRefresh.pre.data /\ e.lastFetch = lastRefresh.pre.lastFetch
             \/ e.data.ref = n /\ e.data.ref # lastRefresh.pre.data.ref /\ e.lastFetch >= lastRefresh.pre.lastFetch
       /\ (lastReturn.c = "channel" /\ lastReturn.res.ref # 0 /\ e.data.ref = lastReturn.res.ref) =>
             e.data.items = lastReturn.res.items

\* a reader was handed a channel list and a later refresh has put another
\* list into the cache
C23_Witness ==
    /\ lastReturn.c = "channel"
    /\ lastReturn.res.kind = "list"
    /\ lastReturn.res.ref # 0
    /\ cache["channel"].data.ref > lastReturn.res.ref
    /\ cache["channel"].data.items # lastReturn.res.items

\* C2: a getChannels()/getEPG() call that found a refresh in flight does not
\* return before that refresh has ended; what it returns then is the
\* snapshot the refresh left
C2_JoinAwaitsInFlight ==
    \A w \in lastReturn.who :
        w.path \in {"joined", "skipped"} =>
            /\ lastReturn.at > w.met
            /\ (lastReturn.at = completed[lastReturn.c] /\ InFlight(lastReturn.c) = {}) =>
                  lastReturn.res = ResultOf(impl, lastReturn.c, cache[lastReturn.c].data)

\* C3: a refresh of the channel cache that fails upstream leaves the
\* snapshot and its timestamp as they were, and the getChannels() call that
\* awaited it returns the pre-failure snapshot
UpstreamFailures == {"network", "status", "unparsable", "body"}
C3_FailedRefreshKeepsSnapshot ==
    (lastRefresh.c = "channel" /\ lastRefresh.cause \in UpstreamFailures) =>
        /\ cache["channel"].data = lastRefresh.pre.data
        /\ cache["channel"].lastFetch = lastRefresh.pre.lastFetch
        /\ (lastReturn.c = "channel" /\ lastReturn.at = lastRefresh.n
               /\ \E w \in lastReturn.who : w.path = "started")
              => lastReturn.res = ResultOf(impl, "channel", lastRefresh.pre.data)

\* C4: getChannels() returns without a refresh only for a non-empty, fresh
\* snapshot; otherwise a refresh was triggered or joined and had ended
\* before it returned
IsEmptySnapshot(data) == data.kind = "null" \/ (data.kind = "list" /\ Len(data.items) = 0)
C4_GetRefreshesEmptyOrStale ==
    lastReturn.c = "channel" =>
        \A w \in lastReturn.who :
            /\ w.path = "fresh" => ~IsEmptySnapshot(lastReturn.res)
            /\ w.path # "fresh" => lastReturn.at > w.met

\* C31: the meta and the stream handler never end in an exception for want
\* of a channel list: whatever a getChannels() call returns is an array, and
\* when no channel list is available (cold cache and the refresh failed or
\* is another caller's and still in flight) they answer { meta: null } and
\* { streams: [] }
C31_HandlersNeverThrow ==
    (lastReturn.c = "channel" /\ lastReturn.who # {}) =>
        \A id \in HandlerIds :
            LET m == defineMetaHandler(lastReturn.res, id)
                st == defineStreamHandler(lastReturn.res, id)
            IN /\ m.kind = "meta" /\ st.kind = "streams"
               /\ IsEmptySnapshot(lastReturn.res) => (m.meta = "" /\ st.streams = <<>>)

\* C32: every getChannels()/getEPG() call eventually returns, and a cache
\* marked as updating is eventually unmarked, also when the feed never
\* answers or every attempt fails
C32_CallsReturn ==
    /\ \A p \in Callers : (procs[p].pc # "idle") ~> (procs[p].pc = "idle")
    /\ \A c \in Caches : Marker(c) ~> ~Marker(c)

\* ------------------------------------------------------------------------
\* Strings
\* ------------------------------------------------------------------------
\* A string is a sequence of tokens.  A token is one character, or a word:
\* a run of unreserved characters (letters, digits, '.', '-', '_') inside
\* which no operation of the program looks.  Reserved characters, white
\* space, '%' and the hex digits of an escape are always tokens of their own.
StartsWith(s, pre) == Len(s) >= Len(pre) /\ SubSeq(s, 1, Len(pre)) = pre
EndsWith(s, suf) == Len(s) >= Len(suf) /\ SubSeq(s, Len(s) - Len(suf) + 1, Len(s)) = suf
Contains(s, t) == \E i \in 1..Len(s) : s[i] = t

WhiteSpace == {" ", "\t", "\r"}

RECURSIVE TrimStart(_)
TrimStart(s) == IF s # <<>> /\ Head(s) \in WhiteSpace THEN TrimStart(Tail(s)) ELSE s
RECURSIVE TrimEnd(_)
TrimEnd(s) == IF s # <<>> /\ s[Len(s)] \in WhiteSpace THEN TrimEnd(SubSeq(s, 1, Len(s) - 1)) ELSE s
\* String.prototype.trim
Trim(s) == TrimEnd(TrimStart(s))

HexDigits == {"0", "1", "2", "3", "4", "5", "6", "7", "8", "9", "A", "B", "C", "D", "E", "F"}
HighDigits == {"8", "9", "A", "B", "C", "D", "E", "F"}

\* the characters encodeURIComponent escapes, with the two hex digits of
\* their code
EscapeTable ==
    { <<"\t", "0", "9">>, <<"\r", "0", "D">>, <<" ", "2", "0">>, <<"#", "2", "3">>,
      <<"%", "2", "5">>, <<"&", "2", "6">>, <<"+", "2", "B">>, <<"/", "2", "F">>,
      <<":", "3", "A">>, <<"=", "3", "D">>, <<"?", "3", "F">>, <<"@", "4", "0">> }
Escaped == {e[1] : e \in EscapeTable}
EscapeOf(ch) == LET e == CHOOSE x \in EscapeTable : x[1] = ch IN <<"%", e[2], e[3]>>

RECURSIVE encodeURIComponent(_)
encodeURIComponent(s) ==
    IF s = <<>> THEN <<>>
    ELSE (IF Head(s) \in Escaped THEN EscapeOf(Head(s)) ELSE <<Head(s)>>) \o encodeURIComponent(Tail(s))

\* decodeURIComponent: the decoded string, or a URIError for a '%' that is
\* not followed by two hex digits or that starts a malformed UTF-8 sequence
\* (a byte of 0x80 and more standing alone).  An escape of an ASCII
\* character outside EscapeTable is written as the token "chr".
URIError == [ok |-> FALSE, v |-> <<>>]
RECURSIVE DecodeFrom(_, _, _)
DecodeFrom(s, i, acc) ==
    IF i > Len(s) THEN [ok |-> TRUE, v |-> acc]
    ELSE IF s[i] # "%" THEN DecodeFrom(s, i + 1, Append(acc, s[i]))
    ELSE IF i + 2 > Len(s) \/ s[i + 1] \notin HexDigits \/ s[i + 2] \notin HexDigits THEN URIError
    ELSE IF s[i + 1] \in HighDigits THEN URIError
    ELSE LET hit == {e \in EscapeTable : e[2] = s[i + 1] /\ e[3] = s[i + 2]} IN
         DecodeFrom(s, i + 3, Append(acc, IF hit = {} THEN "chr" ELSE (CHOOSE e \in hit : TRUE)[1]))
decodeURIComponent(s) == DecodeFrom(s, 1, <<>>)

\* ------------------------------------------------------------------------
\* URLs (the part of the WHATWG URL parser the inputs of the model reach:
\* http(s) URLs with "//", scheme-relative, root-relative and path-relative
\* references, opaque URLs of other schemes; no dot segments, no default
\* ports, lower-case hosts)
\* ------------------------------------------------------------------------
SpecialSchemes == {"http", "https"}
Slashes == <<"/", "/">>
Delims == {"/", "?", "#"}
ForbiddenInHost == {" ", "\t", "\r", "%", "#", "?", "/"}

Invalid == [ok |-> FALSE, scheme |-> "", authority |-> <<>>, host |-> <<>>, tail |-> <<>>]

RECURSIVE UpTo(_, _)
UpTo(s, stops) == IF s = <<>> \/ Head(s) \in stops THEN <<>> ELSE <<Head(s)>> \o UpTo(Tail(s), stops)

RECURSIVE AfterLast(_, _)
AfterLast(s, t) == IF Contains(s, t) THEN AfterLast(Tail(s), t) ELSE s

RECURSIVE EncodeSpaces(_)
EncodeSpaces(s) ==
    IF s = <<>> THEN <<>>
    ELSE (IF Head(s) = " " THEN <<"%", "2", "0">> ELSE <<Head(s)>>) \o EncodeSpaces(Tail(s))

\* the parse of  scheme://authority tail
ParseAbsolute(s) ==
    IF Len(s) < 4 \/ s[1] \notin SpecialSchemes \/ s[2] # ":" \/ SubSeq(s, 3, 4) # Slashes THEN Invalid
    ELSE LET rest == SubSeq(s, 5, Len(s))
             authority == UpTo(rest, Delims)
             host == AfterLast(authority, "@")
             tail == SubSeq(rest, Len(authority) + 1, Len(rest))
         IN IF host = <<>> \/ Head(host) = ":" \/ \E i \in 1..Len(host) : host[i] \in ForbiddenInHost
            THEN Invalid
            ELSE [ok |-> TRUE, scheme |-> s[1], authority |-> authority, host |-> host,
                  tail |-> (IF tail = <<>> \/ Head(tail) # "/" THEN <<"/">> ELSE <<>>) \o EncodeSpaces(tail)]

\* new URL(s): s has to be an absolute URL
NewURL(s) ==
    IF Len(s) >= 2 /\ s[2] = ":" /\ s[1] \notin SpecialSchemes
    THEN [ok |-> TRUE, scheme |-> s[1], authority |-> <<>>, host |-> <<>>, tail |-> SubSeq(s, 3, Len(s))]
    ELSE ParseAbsolute(s)

\* URL.href
Href(u) ==
    IF u.scheme \in SpecialSchemes THEN <<u.scheme, ":">> \o Slashes \o u.authority \o u.tail
    ELSE <<u.scheme, ":">> \o u.tail
\* URL.origin
Origin(u) == <<u.scheme, ":">> \o Slashes \o u.host

RECURSIVE DirOf(_)
DirOf(path) == IF path = <<>> \/ path[Len(path)] = "/" THEN path ELSE DirOf(SubSeq(path, 1, Len(path) - 1))

\* new URL(ref, base)
NewURLWithBase(ref, base) ==
    IF ref = <<>> THEN base
    ELSE IF Len(ref) >= 2 /\ ref[2] = ":" THEN NewURL(ref)
    ELSE IF StartsWith(ref, Slashes) THEN ParseAbsolute(<<base.scheme, ":">> \o ref)
    ELSE IF Head(ref) = "/" THEN [base EXCEPT !.tail = EncodeSpaces(ref)]
    ELSE IF Head(ref) = "?" THEN [base EXCEPT !.tail = UpTo(base.tail, {"?", "#"}) \o EncodeSpaces(ref)]
    ELSE IF Head(ref) = "#" THEN [base EXCEPT !.tail = UpTo(base.tail, {"#"}) \o EncodeSpaces(ref)]
    ELSE [base EXCEPT !.tail = DirOf(UpTo(base.tail, {"?", "#"})) \o EncodeSpaces(ref)]

\* ------------------------------------------------------------------------
\* The playlist rewriter
\* ------------------------------------------------------------------------
ProxyPath == <<"/", "proxy", "/">>
Https == <<"https", ":">> \o Slashes
Http == <<"http", ":">> \o Slashes

\* the three revisions of the rewriter
Rewriters == {"server_v1", "server_v2", "part_005"}

\* addonBaseUrl / addonHost, from the configured or requested base
addonBaseUrl(rev, configured) ==
    IF rev = "server_v1" /\ StartsWith(configured, Http)
    THEN Https \o SubSeq(configured, Len(Http) + 1, Len(configured))
    ELSE configured

\* the test that keeps a line as it is because it already goes through the
\* proxy
AlreadyProxied(rev, absUrl, base) ==
    rev \in {"server_v1", "server_v2"} /\ StartsWith(absUrl, base)

\* the callback of  split('\n').map(...)
rewriteLine(rev, line, baseUrl, base) ==
    LET l == Trim(line) IN
    IF l # <<>> /\ Head(l) # "#"
    THEN LET u == NewURLWithBase(l, baseUrl) IN
         IF ~u.ok THEN l
         ELSE IF AlreadyProxied(rev, Href(u), base) THEN l
         ELSE base \o ProxyPath \o encodeURIComponent(Href(u))
    ELSE l

\* a playlist body is the sequence of its lines (split('\n') ... join('\n'))
rewritePlaylist(rev, body, baseUrl, base) ==
    [i \in 1..Len(body) |-> rewriteLine(rev, body[i], baseUrl, base)]

\* ---- inputs of the rewriter ----
ExampleTest == Https \o <<"example.test">>
AddonTest == Https \o <<"addon.test">>
PlaylistUrls ==
    { ExampleTest \o <<"/", "live", ".m3u8">>,
      ExampleTest \o <<"/", "hls", "/", "index", ".m3u8", "?", "token", "=", "x">> }
\* K_SERVICE_URL / ADDON_HOST, or protocol and Host header of the request
ConfiguredBases == {AddonTest, Http \o <<"addon.test">>}

SegmentLine == <<"segment1", ".ts">>
PlaylistLines ==
    { SegmentLine,
      <<" ", "segment1", ".ts", "\r">>,
      <<"#", "EXTINF", ":", "10", "\r">>,
      <<>>,
      <<"\r">>,
      Http \o <<"\r">>,
      <<"/", "abs", "/", "seg", ".ts", "?", "a", "=", "1", "&", "b", "=", "2">>,
      Slashes \o <<"cdn.test", "/", "seg", ".ts">>,
      Https \o <<"cdn.test", "/", "a b", ".ts">>,
      Https \o <<"cdn.test">>,
      Http,
      AddonTest \o ProxyPath \o encodeURIComponent(ExampleTest \o <<"/", "segment1", ".ts">>),
      AddonTest \o <<".evil.test", "/", "seg", ".ts">>,
      AddonTest \o <<":", "8443", "/", "seg", ".ts">> }

Playlists == UNION {[1..n -> PlaylistLines] : n \in 1..MaxLines}

\* ---- state machine: one playlist response is rewritten ----
RewriteIdle == rw = [rev |-> "server_v1", url |-> CHOOSE u \in PlaylistUrls : TRUE,
                     base |-> AddonTest, body |-> <<>>, out |-> <<>>, done |-> FALSE,
                     out2 |-> <<>>, twice |-> FALSE]

RewriteInit ==
    rw \in [rev : Rewriters, url : PlaylistUrls, base : ConfiguredBases, body : Playlists,
            out : {<<>>}, done : {FALSE}, out2 : {<<>>}, twice : {FALSE}]

\* the playlist branch of proxyHandler / onProxyRes
RewriteBody ==
    /\ ~rw.done
    /\ rw' = [rw EXCEPT !.done = TRUE,
                        !.out = rewritePlaylist(rw.rev, rw.body, NewURL(rw.url),
                                                addonBaseUrl(rw.rev, rw.base))]
    /\ UNCHANGED <<cacheVars, proxyVars, sideVars>>

\* the rewritten playlist passes through the rewriter once more (the
\* player requests it through the proxy again, same addon base)
RewriteAgain ==
    /\ rw.done
    /\ ~rw.twice
    /\ rw' = [rw EXCEPT !.twice = TRUE,
                        !.out2 = rewritePlaylist(rw.rev, rw.out, NewURL(rw.url),
                                                 addonBaseUrl(rw.rev, rw.base))]
    /\ UNCHANGED <<cacheVars, proxyVars, sideVars>>

RewriteNext == RewriteBody \/ RewriteAgain

\* ------------------------------------------------------------------------
\* The streaming proxy: one request to /proxy/* (server.js, both revisions)
\* ------------------------------------------------------------------------
\*   variant  = the revision of proxyHandler serving the request
\*   req      = the request: method, Origin header, the raw path after
\*              /proxy/, the configured base, and what the handler derived
\*              from them
\*   hpc      = where the handler stands: "route" (not yet dispatched),
\*              "fetch" / "fallback" (awaiting fetch), "text" (awaiting
\*              upstreamRes.text()), "pipe" (relaying the body), "done"
\*   resp     = the response: the headers set so far (cors: the CORS
\*              headers; headers: Content-Type, Content-Length with 0 for
\*              none and -1 for the length of a generated JSON text,
\*              Content-Range) and, once status # 0, what was sent
\*   timer    = the abort timer: "unset", "armed", "cleared", "fired"
\*   upstream = the upstream side: requests issued, whether an operation
\*              (request, or response body not yet ended) is open, the
\*              status of the last answer (0: none), the URL fetched
\*   elapsed  = time since the abort timer was armed, in TimeStep units
Variants == {"v1", "v2"}
Methods == {"GET", "HEAD", "OPTIONS"}
TimeoutSteps == UPSTREAM_TIMEOUT \div TimeStep

PlaylistUrl == ExampleTest \o <<"/", "live", ".m3u8">>
SegmentUrl == ExampleTest \o <<"/", "segment1", ".ts">>
\* a URL with a query, '&' and '+', and a URL that contains a percent-escape
QueryUrl == ExampleTest \o <<"/", "seg", ".ts", "?", "a", "=", "1", "&", "b", "=", "x", "+", "y">>
EscapedUrl == ExampleTest \o <<"/", "a", "%", "2", "F", "b", ".ts">>
\* a playlist URL with a query
TokenUrl == PlaylistUrl \o <<"?", "token", "=", "x">>
\* the stream URLs of channels and the URLs the rewriter resolves
ValidUrls == {PlaylistUrl, SegmentUrl, QueryUrl, EscapedUrl}
RawPaths ==
    { <<>>,
      <<"not-a-url">>,
      <<"%">>,
      <<"%", "2", "5">>,
      encodeURIComponent(Http),
      encodeURIComponent(<<"ftp", ":">> \o Slashes \o <<"example.test", "/", "x">>),
      encodeURIComponent(PlaylistUrl),
      encodeURIComponent(SegmentUrl),
      encodeURIComponent(QueryUrl),
      encodeURIComponent(EscapedUrl),
      encodeURIComponent(TokenUrl) }

ProxyPlaylists ==
    { <<SegmentLine>>,
      << <<"#", "EXTM3U">>, Https \o <<"cdn.test", "/", "seg", ".ts">>, <<>> >> }

\* Origin headers: none, a Stremio web origin, an origin that contains the
\* name of one
StremioWeb == Https \o <<"web", ".", "stremio.com">>
Lookalike == Https \o <<"stremio.com", ".", "evil.test">>
Origins == {<<>>, StremioWeb, Lookalike}

\* Buffer.byteLength: the words of the model's strings and their lengths;
\* every other token is one character
WordLengths ==
    { <<"https", 5>>, <<"http", 4>>, <<"ftp", 3>>, <<"example.test", 12>>, <<"addon.test", 10>>,
      <<"cdn.test", 8>>, <<".evil.test", 10>>, <<"evil.test", 9>>, <<"stremio.com", 11>>,
      <<"web", 3>>, <<"8443", 4>>, <<"segment1", 8>>, <<"seg", 3>>, <<".ts", 3>>, <<".m3u8", 5>>,
      <<"live", 4>>, <<"hls", 3>>, <<"index", 5>>, <<"token", 5>>, <<"abs", 3>>, <<"a b", 3>>,
      <<"proxy", 5>>, <<"EXTM3U", 6>>, <<"EXTINF", 6>>, <<"10", 2>>, <<"not-a-url", 9>> }
TokenLength(t) ==
    IF \E w \in WordLengths : w[1] = t THEN (CHOOSE w \in WordLengths : w[1] = t)[2] ELSE 1
RECURSIVE StringLength(_)
StringLength(str) == IF str = <<>> THEN 0 ELSE TokenLength(Head(str)) + StringLength(Tail(str))
RECURSIVE LinesLength(_)
LinesLength(lines) == IF lines = <<>> THEN 0 ELSE StringLength(Head(lines)) + LinesLength(Tail(lines))
\* the byte length of  lines.join('\n')
ByteLength(lines) == IF lines = <<>> THEN 0 ELSE LinesLength(lines) + Len(lines) - 1

Statuses == {200, 206, 404, 503}
MpegUrlTypes == {"application/x-mpegURL", "application/vnd.apple.mpegurl"}
\* Content-Type of an upstream answer ("": none)
ContentTypes == {"application/x-mpegURL", "video/MP2T", "application/octet-stream", ""}
\* Content-Length of an upstream answer (0: none)
ContentLengths == {0} \cup {ByteLength(b) : b \in ProxyPlaylists}
Answer(k, st, ct, cl, cr) == [kind |-> k, status |-> st, ctype |-> ct, clen |-> cl, crange |-> cr]
NoAnswer == Answer("failure", 0, "", 0, FALSE)
UpstreamAnswers ==
    {Answer("response", st, ct, cl, st = 206) : st \in {200, 206}, ct \in ContentTypes, cl \in ContentLengths}
      \cup {Answer("response", st, "", 0, FALSE) : st \in {404, 503}}
      \cup {NoAnswer}
IsOk(st) == st >= 200 /\ st <= 299

NoHeaders == [ctype |-> "", clen |-> 0, crange |-> FALSE]
NoCors == [acao |-> <<>>, methods |-> {}, allow |-> {}, expose |-> {}]

NoValue == [ok |-> FALSE, v |-> <<>>]
NoResponse == [status |-> 0, body |-> "none", keys |-> {}, upstreamStatus |-> 0, out |-> <<>>,
               by |-> "none", cause |-> "none", ended |-> FALSE, closed |-> FALSE,
               sends |-> 0,
               headers |-> NoHeaders, cors |-> NoCors]
NoUpstream == [n |-> 0, open |-> FALSE, status |-> 0, method |-> "none", url |-> <<>>,
               answer |-> NoAnswer, log |-> <<>>]

PState == [req |-> req, hpc |-> hpc, resp |-> resp, timer |-> timer, upstream |-> upstream,
           elapsed |-> elapsed]
SetP(P) ==
    /\ req' = P.req
    /\ hpc' = P.hpc
    /\ resp' = P.resp
    /\ timer' = P.timer
    /\ upstream' = P.upstream
    /\ elapsed' = P.elapsed

\* /^https?:\/\//.test(s)
TestHttpRegex_Any(s) == TRUE
TestHttpRegex(s) ==
    Len(s) >= 4 /\ s[1] \in {"http", "https"} /\ s[2] = ":" /\ s[3] = "/" /\ s[4] = "/"

\* res.status(st).json({...}) with the given keys, or .end() for no body.
\* resp.sends counts the calls that start a response (json, send, end,
\* sendStatus, pipe).
Respond(P, st, body, keys, cause) ==
    [P EXCEPT !.hpc = "done",
              !.resp = [P.resp EXCEPT !.status = st, !.body = body, !.keys = keys,
                                      !.sends = @ + 1,
                                      !.upstreamStatus = P.upstream.status,
                                      !.by = "handler", !.cause = cause, !.ended = TRUE,
                                      !.headers.ctype = IF body = "json" THEN "application/json" ELSE @,
                                      !.headers.clen = IF body = "json" THEN -1 ELSE @]]

\* the CORS middleware registered before the routes
AllowHeadersV1 == {"Origin", "X-Requested-With", "Content-Type", "Accept", "Range"}
allowedOrigins ==
    { StremioWeb, Https \o <<"app", ".", "strem.io">>, Https \o <<"stremio.github.io">>,
      Https \o <<"nz-freeview-addon-355637409766.us-west1.run.app">> }
Middleware(v, origin) ==
    IF v = "v1"
    THEN [acao |-> IF origin # <<>> /\ origin \in allowedOrigins THEN origin ELSE <<"*">>,
          methods |-> {"GET", "HEAD", "OPTIONS"},
          allow |-> AllowHeadersV1,
          expose |-> {"Content-Length", "Content-Range", "Content-Type"}]
    ELSE [acao |-> <<"*">>,
          methods |-> {"GET", "POST", "PUT", "DELETE", "OPTIONS"},
          allow |-> {"Origin", "X-Requested-With", "Content-Type", "Accept", "Authorization",
                     "Cache-Control"},
          expose |-> {}]

\* the CORS headers proxyHandler sets in its first lines (first revision
\* only; the second revision sets none)
HandlerCors(v, P) ==
    LET origin == P.req.origin IN
    IF v = "v1"
    THEN [P EXCEPT !.resp.cors =
             [acao |-> IF origin # <<>> /\ (Contains(origin, "stremio.com") \/ Contains(origin, "strem.io"))
                       THEN origin ELSE <<"*">>,
              methods |-> {"GET", "HEAD", "OPTIONS"},
              allow |-> AllowHeadersV1,
              expose |-> {"Content-Length", "Content-Range", "Content-Type", "Accept-Ranges"}]]
    ELSE P

\* the catch block of proxyHandler
Catch_Silent(v, P, cause) == [P EXCEPT !.hpc = "done", !.resp.cause = cause]
Catch(v, P, cause) ==
    IF v = "v1"
    THEN IF P.req.method = "HEAD" THEN Respond(P, 503, "empty", {}, cause)
         ELSE Respond(P, 503, "json", {"error", "message", "upstreamStatus", "url", "details"}, cause)
    ELSE Respond(P, 500, "json", {"error", "message", "upstreamStatus", "url"}, cause)

\* fetch(decodedUrl, {method, signal})
IssueFetch(P, m, pc) ==
    [P EXCEPT !.hpc = pc,
              !.upstream = [P.upstream EXCEPT !.n = @ + 1, !.open = TRUE, !.method = m,
                                              !.url = P.req.decoded.v]]

\* proxyHandler from its first line to its first await
HandlerEntry(v, P0) ==
    LET P == HandlerCors(v, P0)
        encodedUrl == P.req.params.v
        decodedUrl == decodeURIComponent(encodedUrl)
        P1 == [P EXCEPT !.req.decoded = decodedUrl]
    IN IF encodedUrl = <<>> THEN Respond(P, 400, "json", {"error"}, "input")
       ELSE IF ~decodedUrl.ok THEN Catch(v, P, "exception")
       ELSE IF ~TestHttpRegex(decodedUrl.v) THEN Respond(P1, 400, "json", {"error"}, "input")
       ELSE IF ~NewURL(decodedUrl.v).ok THEN Catch(v, P1, "exception")
       ELSE IssueFetch([P1 EXCEPT !.timer = "armed", !.elapsed = 0],
                       IF v = "v1" THEN "GET" ELSE P.req.method, "fetch")

\* the CORS middleware runs first and answers OPTIONS itself (status(200)
\* .end() in the first revision, sendStatus(200), which sends the text
\* "OK", in the second); then the router matches /proxy/* and decodes the
\* parameter; a parameter that cannot be decoded is answered 400 by the
\* router itself
Dispatch(v, P0) ==
    LET P == [P0 EXCEPT !.resp.cors = Middleware(v, P0.req.origin)]
        param == decodeURIComponent(P.req.raw)
    IN
    IF P.req.method = "OPTIONS"
    THEN [P EXCEPT !.hpc = "done",
                   !.resp = [P.resp EXCEPT !.status = 200, !.body = IF v = "v1" THEN "empty" ELSE "text",
                                           !.by = "middleware", !.ended = TRUE, !.sends = @ + 1]]
    ELSE IF ~param.ok
    THEN [P EXCEPT !.hpc = "done",
                   !.resp = [P.resp EXCEPT !.status = 400, !.body = "html", !.by = "router",
                                           !.cause = "input", !.ended = TRUE, !.sends = @ + 1]]
    ELSE HandlerEntry(v, [P EXCEPT !.req.params = param])

\* proxyHandler after a 2xx answer: headers, then HEAD / playlist / relay.
\* No status is set on this path: the response goes out with 200.
AfterOk(v, P0, a) ==
    LET isM3U8 == a.ctype \in MpegUrlTypes \/ EndsWith(P0.req.decoded.v, <<".m3u8">>)
        isTS == a.ctype = "video/MP2T" \/ EndsWith(P0.req.decoded.v, <<".ts">>)
        contentType ==
            IF v = "v1"
            THEN IF isM3U8 THEN "application/vnd.apple.mpegurl" ELSE IF isTS THEN "video/MP2T" ELSE a.ctype
            ELSE IF a.ctype = "" /\ isTS THEN "video/MP2T" ELSE a.ctype
        P == [P0 EXCEPT !.resp.headers = [ctype |-> contentType, clen |-> a.clen,
                                          crange |-> v = "v1" /\ a.crange]]
    IN
    IF P.req.method = "HEAD" THEN Respond(P, 200, "empty", {}, "none")
    ELSE IF isM3U8 THEN [P EXCEPT !.hpc = "text"]
    ELSE [P EXCEPT !.hpc = "pipe",
                   !.resp = [P.resp EXCEPT !.status = 200, !.body = "stream", !.by = "handler",
                                           !.sends = @ + 1]]

\* proxyHandler resumes after  await fetch(...)  with answer a
AfterFetch(v, P, a) ==
    LET failed == a.kind = "failure"
        P1 == IF failed THEN [P EXCEPT !.upstream.open = FALSE, !.upstream.log = Append(@, 0)]
              ELSE [P EXCEPT !.upstream.status = a.status, !.upstream.answer = a,
                             !.upstream.log = Append(@, a.status)]
        cleared == [P1 EXCEPT !.timer = IF @ = "armed" THEN "cleared" ELSE @]
    IN IF v = "v1"
       THEN IF failed THEN Catch(v, cleared, "transport")
            ELSE IF ~IsOk(a.status) THEN Respond(cleared, a.status, "json", {"error"}, "status")
            ELSE AfterOk(v, cleared, a)
       ELSE IF P.hpc = "fetch" /\ P.req.method = "HEAD" /\ (failed \/ ~IsOk(a.status))
            THEN IssueFetch(P1, "GET", "fallback")
            ELSE IF failed THEN Catch(v, P1, "transport")
            ELSE IF ~IsOk(a.status) THEN Catch(v, cleared, "status")
            ELSE AfterOk(v, cleared, a)

\* controller.abort() while the handler awaits fetch: the fetch rejects, and
\* so does a fallback fetch started with the aborted signal
AfterAbort(v, P) ==
    LET P1 == [P EXCEPT !.timer = "fired", !.upstream.open = FALSE] IN
    IF P.hpc \in {"fetch", "fallback"} THEN Catch(v, P1, "timeout") ELSE P1

\* the playlist branch after upstreamRes.text() delivered the body: rewrite,
\* Content-Length of the rewritten text, res.send
SendPlaylist(v, P, body) ==
    LET rev == IF v = "v1" THEN "server_v1" ELSE "server_v2"
        out == rewritePlaylist(rev, body, NewURL(P.req.decoded.v), addonBaseUrl(rev, P.req.base))
    IN [P EXCEPT !.hpc = "done", !.upstream.open = FALSE,
                 !.resp = [P.resp EXCEPT !.status = 200, !.body = "playlist", !.out = out,
                                         !.by = "handler", !.ended = TRUE, !.sends = @ + 1,
                                         !.headers.clen = ByteLength(out)]]

\* two requests in flight at the same time.  conn[i] is the invocation of
\* proxyHandler for request i: P its locals and response (as PState), bytes
\* the body of the upstream response to its own fetch ("": none yet), lines
\* the playlist text it read, got the body bytes relayed to its client
Conns == {1, 2}
SegmentBodies == {"bytes1", "bytes2"}
IdleRequest == [method |-> "GET", origin |-> <<>>, raw |-> <<>>, base |-> AddonTest,
                params |-> NoValue, decoded |-> NoValue]
NoConn == [P |-> [req |-> IdleRequest, hpc |-> "done", resp |-> NoResponse, timer |-> "unset",
                  upstream |-> NoUpstream, elapsed |-> 0],
           bytes |-> "", lines |-> <<>>, got |-> ""]
PairIdle == conn = [i \in Conns |-> NoConn]

\* the 'close' of the client connection
AfterClose(P) ==
    [P EXCEPT !.resp.closed = TRUE,
              !.hpc = IF @ = "pipe" THEN "done" ELSE @]

\* upstreamRes.body.pipe(res) when the upstream breaks before the end of the
\* body.  Neither the body stream nor the process has an 'error' listener,
\* pipe() does not end res when its source fails, and the abort timer was
\* cleared when the headers arrived.  What follows depends on the fetch
\* library: the body stream emits 'error', which nobody listens for, and
\* the process dies of the uncaught exception ("crash"); or the body
\* stream never ends and the response stays open ("hang").
StreamOutcomes == {"crash", "hang"}
StreamBreaks(P, o) ==
    [P EXCEPT !.hpc = IF o = "crash" THEN "crashed" ELSE "hung",
              !.upstream.open = FALSE,
              !.resp.cause = "stream"]

ProxyIdle ==
    /\ variant = "v1"
    /\ alive = TRUE
    /\ PairIdle
    /\ req = [method |-> "GET", origin |-> <<>>, raw |-> <<>>, base |-> AddonTest,
              params |-> NoValue, decoded |-> NoValue]
    /\ hpc = "done"
    /\ resp = NoResponse
    /\ timer = "unset"
    /\ upstream = NoUpstream
    /\ elapsed = 0

ProxyInit ==
    /\ variant \in Variants
    /\ alive = TRUE
    /\ PairIdle
    /\ req \in [method : Methods, origin : Origins, raw : RawPaths, base : ConfiguredBases,
                params : {NoValue}, decoded : {NoValue}]
    /\ hpc = "route"
    /\ resp = NoResponse
    /\ timer = "unset"
    /\ upstream = NoUpstream
    /\ elapsed = 0

\* the request reaches the server
ProxyArrive ==
    /\ hpc = "route"
    /\ SetP(Dispatch(variant, PState))
    /\ UNCHANGED <<variant, alive, conn, cacheVars, rw, hq, sideVars>>

\* the upstream answers the pending fetch, or the fetch fails (DNS, connect,
\* TLS failure)
FetchSettles(a) ==
    /\ hpc \in {"fetch", "fallback"}
    /\ SetP(AfterFetch(variant, PState, a))
    /\ UNCHANGED <<variant, alive, conn, cacheVars, rw, hq, sideVars>>

\* TimeStep milliseconds pass; an armed timer fires when it is due
Pass ==
    /\ elapsed < MaxElapsed
    /\ timer # "unset"
    /\ timer = "armed" \/ upstream.open
    /\ ~(timer = "armed" /\ elapsed >= TimeoutSteps)
    /\ elapsed' = elapsed + 1
    /\ UNCHANGED <<variant, alive, req, hpc, resp, timer, upstream, conn, cacheVars, rw, hq, sideVars>>

\* the abort timer fires
TimerFires ==
    /\ timer = "armed"
    /\ elapsed >= TimeoutSteps
    /\ SetP(AfterAbort(variant, PState))
    /\ UNCHANGED <<variant, alive, conn, cacheVars, rw, hq, sideVars>>

\* upstreamRes.text() resolves with the playlist body
TextArrives(body) ==
    /\ hpc = "text"
    /\ upstream.answer.clen \in {0, ByteLength(body)}
    /\ SetP(SendPlaylist(variant, PState, body))
    /\ UNCHANGED <<variant, alive, conn, cacheVars, rw, hq, sideVars>>

\* upstreamRes.text() rejects: the connection broke while the body was read
TextFails ==
    /\ hpc = "text"
    /\ SetP(Catch(variant, [PState EXCEPT !.upstream.open = FALSE], "body"))
    /\ UNCHANGED <<variant, alive, conn, cacheVars, rw, hq, sideVars>>

\* the relayed body has reached its end
PipeEnds ==
    /\ hpc = "pipe"
    /\ SetP([PState EXCEPT !.hpc = "done", !.upstream.open = FALSE, !.resp.ended = TRUE])
    /\ UNCHANGED <<variant, alive, conn, cacheVars, rw, hq, sideVars>>

\* the client closes its connection while the handler awaits the upstream
\* or relays its body.  The handler registers no listener on req or res: in
\* the await phases it carries on and later writes to the closed response;
\* during the relay pipe() detaches from the closed response and the
\* upstream body is left unread.
ClientDisconnects ==
    /\ hpc \in {"fetch", "fallback", "text", "pipe"}
    /\ ~resp.closed
    /\ SetP(AfterClose(PState))
    /\ UNCHANGED <<variant, alive, conn, cacheVars, rw, hq, sideVars>>

\* the upstream connection breaks in the middle of the relayed body
PipeFails(o) ==
    /\ hpc = "pipe"
    /\ SetP(StreamBreaks(PState, o))
    /\ alive' = (o # "crash")
    /\ UNCHANGED <<variant, conn, cacheVars, rw, hq, sideVars>>

\* an upstream response whose body nobody reads is closed by the far end
UpstreamCloses ==
    /\ hpc = "done"
    /\ upstream.open
    /\ upstream' = [upstream EXCEPT !.open = FALSE]
    /\ UNCHANGED <<variant, alive, req, hpc, resp, timer, elapsed, conn, cacheVars, rw, hq, sideVars>>

ProxyNext ==
    \/ ProxyArrive
    \/ \E a \in UpstreamAnswers : FetchSettles(a)
    \/ Pass
    \/ TimerFires
    \/ \E body \in ProxyPlaylists : TextArrives(body)
    \/ TextFails
    \/ PipeEnds
    \/ ClientDisconnects
    \/ \E o \in StreamOutcomes : PipeFails(o)
    \/ UpstreamCloses

\* ------------------------------------------------------------------------
\* The headers sent upstream.  hq = [rev, query, sent, done]: query is the
\* value of the `headers` query parameter as Express hands it over (already
\* percent-decoded once): absent, a text decodeURIComponent rejects, a text
\* JSON.parse rejects, or the JSON text of an object, given by the header
\* names it has (each with the value CallerValue) and by whether the text
\* contains a '%' that does not start an escape.  sent maps each header
\* name, in lower case, to the values that go out under it, in order.
\* ------------------------------------------------------------------------
HeaderRevs == {"server_v1", "server_v2", "part_005"}
CallerNames == {"User-Agent", "user-agent", "Referer", "seekable", "X-Token"}
CallerValue == "caller"
KeyOrder == <<"User-Agent", "Referer", "seekable", "user-agent", "X-Token">>
Lower(name) == IF name = "User-Agent" THEN "user-agent" ELSE IF name = "Referer" THEN "referer" ELSE name
WireNames == {Lower(k) : k \in CallerNames}

Query(k, names, pct) == [kind |-> k, names |-> names, pct |-> pct]
NoQuery == Query("absent", {}, FALSE)
Queries ==
    {NoQuery, Query("undecodable", {}, TRUE), Query("unparsable", {}, FALSE)}
      \cup {Query("json", ns, pct) : ns \in SUBSET CallerNames, pct \in BOOLEAN}

\* customHeaders = {...} in the first revision; the literal passed to fetch
\* in the second; in part_005 what the proxied request starts with, the
\* headers of the inbound request
Defaults(rev) ==
    IF rev = "server_v1"
    THEN [k \in {"User-Agent", "Referer", "seekable"} |->
             IF k = "User-Agent" THEN "otg/1.5.1" ELSE IF k = "Referer" THEN " " ELSE "0"]
    ELSE IF rev = "server_v2"
    THEN [k \in {"User-Agent", "Referer"} |-> IF k = "User-Agent" THEN "Mozilla/5.0" ELSE "origin"]
    ELSE [k \in {"User-Agent"} |-> "client"]

\* JSON.parse(decodeURIComponent(req.query.headers)): the object, or a throw
ParseHeaders(q) ==
    IF q.kind = "json" /\ ~q.pct
    THEN [ok |-> TRUE, obj |-> [k \in q.names |-> CallerValue]]
    ELSE [ok |-> FALSE, obj |-> <<>>]

\* { ...customHeaders, ...parsedHeaders }: keys are compared as spelled
Spread(a, b) == [k \in DOMAIN a \cup DOMAIN b |-> IF k \in DOMAIN b THEN b[k] ELSE a[k]]

\* new Headers(object) of the fetch library: every key is appended under
\* its name, names compared without regard to case
HeadersOf(obj) ==
    [n \in {Lower(k) : k \in DOMAIN obj} |->
        LET keys == SelectSeq(KeyOrder, LAMBDA k : k \in DOMAIN obj /\ Lower(k) = n)
        IN [i \in 1..Len(keys) |-> obj[keys[i]]]]

\* proxyReq.setHeader(key, value) for every key of the object, on top of
\* the headers the proxied request starts with: a later value replaces
RECURSIVE SetHeaders(_, _, _)
SetHeaders(h, obj, keys) ==
    IF keys = <<>> THEN h
    ELSE LET k == Head(keys)
             h1 == IF k \in DOMAIN obj
                   THEN [n \in DOMAIN h \cup {Lower(k)} |-> IF n = Lower(k) THEN <<obj[k]>> ELSE h[n]]
                   ELSE h
         IN SetHeaders(h1, obj, Tail(keys))

\* the header set of the upstream request
UpstreamHeaders(rev, q) ==
    LET parsed == ParseHeaders(q) IN
    IF rev = "server_v1"
    THEN HeadersOf(IF q.kind # "absent" /\ parsed.ok THEN Spread(Defaults(rev), parsed.obj) ELSE Defaults(rev))
    ELSE IF rev = "server_v2"
    THEN HeadersOf(Defaults(rev))
    ELSE IF q.kind # "absent" /\ parsed.ok
         THEN SetHeaders(HeadersOf(Defaults(rev)), parsed.obj, KeyOrder)
         ELSE HeadersOf(Defaults(rev))

IdleHq == [rev |-> "server_v1", query |-> NoQuery, sent |-> <<>>, done |-> TRUE]
HeadersIdle == hq = IdleHq
HeadersInit == hq \in [rev : HeaderRevs, query : Queries, sent : {<<>>}, done : {FALSE}]

\* the handler builds the header set and issues the upstream request
SendUpstream ==
    /\ ~hq.done
    /\ hq' = [hq EXCEPT !.sent = UpstreamHeaders(hq.rev, hq.query), !.done = TRUE]
    /\ UNCHANGED <<cacheVars, rw, variant, soloVars, conn, alive, sideVars>>

HeadersNext == SendUpstream

\* ------------------------------------------------------------------------
\* Two simultaneous requests for the same segment.  proxyHandler keeps all it
\* works with in locals of the invocation (decodedUrl, controller, timeout,
\* upstreamRes, the res it was handed); server.js declares no module-level
\* variable the handler writes, and the handler does not reference the
\* registry caches of addon.js.
\* ------------------------------------------------------------------------
PairMethods == {"GET", "HEAD"}
PairAnswers ==
    {a \in UpstreamAnswers : a.clen = 0 /\ a.ctype \in {"application/x-mpegURL", "video/MP2T"}}
      \cup {a \in UpstreamAnswers : ~IsOk(a.status)}

\* upstreamRes.body of invocation i: the body of the response to its own fetch
OwnBody_Shared(C, i) == C[1].bytes
OwnBody(C, i) == C[i].bytes

FilledEntry == [EmptyEntry EXCEPT !.data = ListData(ParseM3U(FeedA)), !.lastFetch = T0]

PairInit ==
    /\ variant \in Variants
    /\ alive = TRUE
    /\ conn \in [Conns -> {[NoConn EXCEPT !.P.req.method = m,
                                           !.P.req.raw = encodeURIComponent(SegmentUrl),
                                           !.P.hpc = "route"] : m \in PairMethods}]
    /\ req = IdleRequest
    /\ hpc = "done"
    /\ resp = NoResponse
    /\ timer = "unset"
    /\ upstream = NoUpstream
    /\ elapsed = 0
    /\ RewriteIdle
    /\ impl = "addon"
    /\ now = T0
    /\ ticks = 0
    /\ calls = 0
    /\ cache = [c \in Caches |-> IF c = "channel" THEN FilledEntry ELSE EmptyEntry]
    /\ procs = [p \in Procs |-> IF p = TimerId THEN [IdleProc EXCEPT !.tnow = T0] ELSE IdleProc]
    /\ lastRefresh = NoRefresh
    /\ lastReturn = NoReturn
    /\ completed = [c \in Caches |-> 0]

\* request i reaches the server
PairArrive(i) ==
    /\ alive
    /\ conn[i].P.hpc = "route"
    /\ conn' = [conn EXCEPT ![i].P = Dispatch(variant, @)]
    /\ UNCHANGED <<variant, alive, soloVars, cacheVars, rw, hq, sideVars>>

\* the upstream answers the fetch of invocation i with a and the body b, or
\* the fetch fails
PairSettles(i, a, b) ==
    /\ alive
    /\ conn[i].P.hpc \in {"fetch", "fallback"}
    /\ conn' = [conn EXCEPT ![i].P = AfterFetch(variant, @, a),
                            ![i].bytes = IF a.kind = "response" THEN b ELSE @]
    /\ UNCHANGED <<variant, alive, soloVars, cacheVars, rw, hq, sideVars>>

\* TimeStep milliseconds pass for request i while its abort timer is armed
PairPass(i) ==
    LET P == conn[i].P IN
    /\ alive
    /\ P.timer = "armed"
    /\ P.elapsed < TimeoutSteps
    /\ conn' = [conn EXCEPT ![i].P.elapsed = @ + 1]
    /\ UNCHANGED <<variant, alive, soloVars, cacheVars, rw, hq, sideVars>>

PairTimerFires(i) ==
    /\ alive
    /\ conn[i].P.timer = "armed"
    /\ conn[i].P.elapsed >= TimeoutSteps
    /\ conn' = [conn EXCEPT ![i].P = AfterAbort(variant, @)]
    /\ UNCHANGED <<variant, alive, soloVars, cacheVars, rw, hq, sideVars>>

PairTextArrives(i, body) ==
    /\ alive
    /\ conn[i].P.hpc = "text"
    /\ conn' = [conn EXCEPT ![i].P = SendPlaylist(variant, @, body), ![i].lines = body]
    /\ UNCHANGED <<variant, alive, soloVars, cacheVars, rw, hq, sideVars>>

PairTextFails(i) ==
    /\ alive
    /\ conn[i].P.hpc = "text"
    /\ conn' = [conn EXCEPT ![i].P = Catch(variant, [@ EXCEPT !.upstream.open = FALSE], "body")]
    /\ UNCHANGED <<variant, alive, soloVars, cacheVars, rw, hq, sideVars>>

\* upstreamRes.body.pipe(res) has relayed the body to its end
PairPipeEnds(i) ==
    /\ alive
    /\ conn[i].P.hpc = "pipe"
    /\ conn' = [conn EXCEPT ![i].P = [@ EXCEPT !.hpc = "done", !.upstream.open = FALSE, !.resp.ended = TRUE],
                            ![i].got = OwnBody(conn, i)]
    /\ UNCHANGED <<variant, alive, soloVars, cacheVars, rw, hq, sideVars>>

\* the upstream connection of request i breaks in the middle of the body
PairPipeFails(i, o) ==
    /\ alive
    /\ conn[i].P.hpc = "pipe"
    /\ conn' = [conn EXCEPT ![i].P = StreamBreaks(@, o)]
    /\ alive' = (o # "crash")
    /\ UNCHANGED <<variant, soloVars, cacheVars, rw, hq, sideVars>>

PairUpstreamCloses(i) ==
    /\ alive
    /\ conn[i].P.hpc = "done"
    /\ conn[i].P.upstream.open
    /\ conn' = [conn EXCEPT ![i].P.upstream.open = FALSE]
    /\ UNCHANGED <<variant, alive, soloVars, cacheVars, rw, hq, sideVars>>

PairNext ==
    \E i \in Conns :
        \/ PairArrive(i)
        \/ \E a \in PairAnswers, b \in SegmentBodies : PairSettles(i, a, b)
        \/ PairPass(i)
        \/ PairTimerFires(i)
        \/ \E body \in ProxyPlaylists : PairTextArrives(i, body)
        \/ PairTextFails(i)
        \/ PairPipeEnds(i)
        \/ \E o \in StreamOutcomes : PairPipeFails(i, o)
        \/ PairUpstreamCloses(i)

\* ------------------------------------------------------------------------
\* Properties of the playlist rewriter
\* ------------------------------------------------------------------------
\* the URL targets the proxy itself: same scheme, host and port as the base
TargetsProxy(u, base) == LET b == NewURL(base) IN b.ok /\ Origin(u) = Origin(b)

\* C10: every line of a playlist fetched from U that, trimmed, is not empty,
\* does not start with '#' and resolves against U to an absolute URL A not
\* targeting the proxy itself, is replaced by addonBase + '/proxy/' +
\* encodeURIComponent(A)
C10_LinesGoThroughProxy ==
    rw.done =>
        LET base == addonBaseUrl(rw.rev, rw.base)
            U == NewURL(rw.url)
        IN /\ Len(rw.out) = Len(rw.body)
           /\ \A i \in 1..Len(rw.body) :
                 LET l == Trim(rw.body[i])
                     A == NewURLWithBase(l, U)
                 IN (l # <<>> /\ Head(l) # "#" /\ A.ok /\ ~TargetsProxy(A, base)) =>
                        rw.out[i] = base \o ProxyPath \o encodeURIComponent(Href(A))

\* the line is a comment/tag line or a blank line
IsCommentOrBlank(line) == Trim(line) = <<>> \/ Head(Trim(line)) = "#"
\* the line is a URI line, and whether it resolves against playlist URL U
IsUriLine(line) == ~IsCommentOrBlank(line)
Resolves(line, U) == NewURLWithBase(Trim(line), U).ok

\* C25: the rewriter leaves a resolvable URI line unrewritten only if the
\* URL it resolves to targets the proxy's own base (same scheme, host and
\* port); every other resolvable URI line goes through the proxy
C25_UnrewrittenOnlyIfOwnBase ==
    rw.done =>
        LET base == addonBaseUrl(rw.rev, rw.base)
            U == NewURL(rw.url)
        IN \A i \in 1..Len(rw.body) :
              (IsUriLine(rw.body[i]) /\ Resolves(rw.body[i], U)) =>
                  LET A == NewURLWithBase(Trim(rw.body[i]), U)
                      rewritten == base \o ProxyPath \o encodeURIComponent(Href(A))
                  IN /\ rw.out[i] # rewritten => TargetsProxy(A, base)
                     /\ ~TargetsProxy(A, base) => StartsWith(rw.out[i], base \o ProxyPath)

\* C11: the rewriter emits as many lines as it read, and every comment/tag
\* line and blank line at its position verbatim, white space and carriage
\* return included
C11_CommentsVerbatim ==
    rw.done =>
        /\ Len(rw.out) = Len(rw.body)
        /\ \A i \in 1..Len(rw.body) : IsCommentOrBlank(rw.body[i]) => rw.out[i] = rw.body[i]

\* C12: a URI line that does not resolve against the playlist URL is emitted
\* unchanged and every other URI line is still rewritten
C12_UnresolvableUnchanged ==
    rw.done =>
        LET U == NewURL(rw.url) IN
        /\ Len(rw.out) = Len(rw.body)
        /\ \A i \in 1..Len(rw.body) :
              IsUriLine(rw.body[i]) =>
                 IF Resolves(rw.body[i], U)
                 THEN rw.out[i] = rewriteLine(rw.rev, rw.body[i], U, addonBaseUrl(rw.rev, rw.base))
                 ELSE rw.out[i] = rw.body[i]

\* C13: rewriting is idempotent on playlists whose URI lines all resolve:
\* the second pass changes nothing
C13_Idempotent ==
    (rw.twice /\ \A i \in 1..Len(rw.body) :
                    IsUriLine(rw.body[i]) => Resolves(rw.body[i], NewURL(rw.url))) =>
        rw.out2 = rw.out

\* the example of C10: 'segment1.ts' under https://example.test/live.m3u8
C10_Example ==
    (rw.done /\ rw.url = ExampleTest \o <<"/", "live", ".m3u8">> /\ rw.body = <<SegmentLine>>) =>
        rw.out = << addonBaseUrl(rw.rev, rw.base) \o ProxyPath
                    \o <<"https", "%", "3", "A", "%", "2", "F", "%", "2", "F", "example.test",
                          "%", "2", "F", "segment1", ".ts">> >>

\* ------------------------------------------------------------------------
\* Properties of the streaming proxy
\* ------------------------------------------------------------------------
BeginsWithHttp(s) == StartsWith(s, Http) \/ StartsWith(s, Https)

\* C5: proxyHandler answers 400 with a JSON error body and issues no
\* upstream request whenever the path carries no encoded URL or the decoded
\* URL does not begin with http:// or https://
C5_InvalidTargetIs400 ==
    LET param == decodeURIComponent(req.raw)
        decodedUrl == decodeURIComponent(param.v)
    IN (req.method \in {"GET", "HEAD"} /\ hpc # "route" /\ param.ok /\ (param.v = <<>> \/ (decodedUrl.ok /\ ~BeginsWithHttp(decodedUrl.v)))) =>
           /\ upstream.n = 0
           /\ hpc = "done"
           /\ resp.by = "handler" /\ resp.status = 400 /\ resp.body = "json" /\ "error" \in resp.keys

\* the encoded URL 'not-a-url' has been answered 400 by the handler
C5_Witness ==
    /\ hpc = "done"
    /\ req.raw = <<"not-a-url">>
    /\ resp.by = "handler"
    /\ resp.status = 400

\* the input errors of a /proxy request: no encoded URL, an encoded URL that
\* cannot be percent-decoded, a decoded string that is not a well-formed
\* absolute URL, a scheme other than http(s)
InputError(raw) ==
    LET param == decodeURIComponent(raw)
        decodedUrl == decodeURIComponent(param.v)
    IN \/ ~param.ok
       \/ param.v = <<>>
       \/ ~decodedUrl.ok
       \/ ~BeginsWithHttp(decodedUrl.v)
       \/ ~NewURL(decodedUrl.v).ok

\* C14: a request to /proxy/encodeURIComponent(U), U a valid absolute
\* http(s) URL, makes proxyHandler fetch exactly U upstream
C14_RoundTrip ==
    \A U \in ValidUrls :
        (req.method \in {"GET", "HEAD"} /\ req.raw = encodeURIComponent(U) /\ hpc # "route") =>
            /\ upstream.n >= 1
            /\ upstream.url = U

\* the request is for a playlist: the upstream declared a playlist type or
\* the URL ends in .m3u8
IsPlaylistRequest ==
    req.decoded.ok /\ (upstream.answer.ctype \in MpegUrlTypes \/ EndsWith(req.decoded.v, <<".m3u8">>))

\* the upstream bodies that agree with the Content-Length of the answer
BodiesOf(a) == {b \in ProxyPlaylists : a.clen \in {0, ByteLength(b)}}

\* what the handler answers to a GET of the same URL for the same upstream
\* answer and body
GetResponse(body) ==
    SendPlaylist(variant, AfterOk(variant, [PState EXCEPT !.req.method = "GET"], upstream.answer), body).resp

\* C15: a HEAD request for a playlist is answered with an empty body, the
\* upstream body is not read, and its Content-Type and Content-Length are
\* those a GET of the same URL reports for the same upstream response
C15_HeadReportsGetHeaders ==
    (req.method = "HEAD" /\ hpc = "done" /\ resp.by = "handler" /\ IsOk(upstream.status)
         /\ resp.cause = "none" /\ IsPlaylistRequest) =>
        /\ resp.body = "empty"
        /\ resp.out = <<>>
        /\ \A body \in BodiesOf(upstream.answer) :
              /\ resp.headers.ctype = GetResponse(body).headers.ctype
              /\ resp.headers.clen = GetResponse(body).headers.clen

\* C16: one inbound HEAD makes at most two upstream requests, the second a
\* GET issued only after the first attempt failed or was answered non-2xx;
\* when that GET fails too (transport failure or timeout) the client gets
\* 503; an inbound GET makes at most one upstream request
C16_BoundedFallback ==
    /\ upstream.n <= 2
    /\ req.method = "GET" => upstream.n <= 1
    /\ upstream.n = 2 =>
          /\ req.method = "HEAD"
          /\ upstream.method = "GET"
          /\ Len(upstream.log) >= 1
          /\ ~IsOk(upstream.log[1])
    /\ (hpc = "done" /\ upstream.n = 2 /\ resp.cause \in {"transport", "timeout"}) => resp.status = 503

\* what each of two simultaneous requests ends with is its own: a relayed
\* request has issued its own fetch, relayed the bytes of the response to
\* that fetch and built its headers from that response; a playlist request
\* has rewritten the text it read itself
OwnResponses ==
    \A i \in Conns :
        LET P == conn[i].P
            rev == IF variant = "v1" THEN "server_v1" ELSE "server_v2"
        IN /\ (P.hpc = "done" /\ P.resp.body = "stream") =>
                 /\ P.upstream.n >= 1
                 /\ conn[i].got = conn[i].bytes
                 /\ P.resp.headers = AfterOk(variant, P, P.upstream.answer).resp.headers
           /\ (P.hpc = "done" /\ P.resp.body = "playlist") =>
                 /\ P.upstream.n >= 1
                 /\ P.resp.out = rewritePlaylist(rev, conn[i].lines, NewURL(P.req.decoded.v),
                                                 addonBaseUrl(rev, P.req.base))
           /\ (P.hpc = "done" /\ P.resp.by = "handler") => P.upstream.n >= 1

\* a step of one request changes nothing of the other, and no step changes
\* the registry caches
StepsAreLocal ==
    /\ \A i, j \in Conns : (conn'[i] # conn[i] /\ j # i) => conn'[j] = conn[j]
    /\ UNCHANGED <<cache, procs, lastRefresh, completed>>

\* C17: two simultaneous requests for the same segment are handled
\* independently: each issues its own upstream fetch and completes with the
\* bytes and headers of its own upstream response, no step of one changes
\* anything of the other, and the channel and EPG caches stay as they were
C17_IndependentRequests == []OwnResponses /\ [][StepsAreLocal]_vars

\* both requests for the segment have been relayed, each with the bytes of
\* its own upstream response, the two responses being different, while the
\* channel cache holds a channel list
C17_Witness ==
    /\ \A i \in Conns : conn[i].P.hpc = "done" /\ conn[i].P.resp.body = "stream"
    /\ conn[1].P.req.raw = conn[2].P.req.raw
    /\ conn[1].got = "bytes1"
    /\ conn[2].got = "bytes2"
    /\ cache["channel"].data.kind = "list"

\* the CORS headers are set: allowed origin, methods and headers
CorsSet(c) == c.acao # <<>> /\ c.methods # {} /\ c.allow # {}

\* C18: an OPTIONS request to /proxy/<anything> is answered 200 with the
\* CORS headers set and no body, and causes no upstream request, whatever
\* the encoded URL is
C18_OptionsShortCircuit ==
    (req.method = "OPTIONS" /\ hpc # "route") =>
        /\ hpc = "done"
        /\ resp.status = 200
        /\ CorsSet(resp.cors)
        /\ resp.body = "empty"
        /\ upstream.n = 0

\* C19: every response to a GET/HEAD /proxy request (relay, rewritten
\* playlist, HEAD answer, 400, propagated status, 503) carries
\* Access-Control-Allow-Origin, Access-Control-Allow-Methods: GET, HEAD,
\* OPTIONS, Allow-Headers covering Range/Content-Type/Accept and
\* Expose-Headers covering Content-Length/Content-Range/Content-Type/
\* Accept-Ranges
C19_CorsOnEveryResponse ==
    (req.method \in {"GET", "HEAD"} /\ resp.status # 0) =>
        /\ resp.cors.acao # <<>>
        /\ resp.cors.methods = {"GET", "HEAD", "OPTIONS"}
        /\ {"Range", "Content-Type", "Accept"} \subseteq resp.cors.allow
        /\ {"Content-Length", "Content-Range", "Content-Type", "Accept-Ranges"} \subseteq resp.cors.expose

\* C20: a successful non-playlist upstream response is relayed with the
\* upstream's status code, its Content-Type, and its Content-Length and
\* Content-Range whenever the upstream sent them
C20_RelayPreservesStatusAndHeaders ==
    (req.method = "GET" /\ resp.status # 0 /\ resp.body = "stream") =>
        LET a == upstream.answer IN
        /\ resp.status = a.status
        /\ resp.headers.ctype = a.ctype
        /\ a.clen # 0 => resp.headers.clen = a.clen
        /\ a.crange => resp.headers.crange

\* the phases at which the upstream can fail a request: before the
\* headers, while the playlist body is read, in the middle of the relay
UpstreamFaults == {"transport", "timeout", "body", "stream"}

\* C24: an upstream failure at any phase ends only the request it
\* happened in, with an outcome reported to that caller (its response has
\* been sent and ended), the process keeps running, and the other request
\* is still served: it is answered, or a step of it can be taken
C24_FailuresAreScoped ==
    /\ alive
    /\ \A i \in Conns :
          conn[i].P.resp.cause \in UpstreamFaults =>
              /\ conn[i].P.hpc = "done"
              /\ conn[i].P.resp.status # 0
              /\ conn[i].P.resp.ended

\* the path component of a URL: its tail up to the query or fragment
PathOf(u) == UpTo(u.tail, {"?", "#"})

\* C26: a successful upstream response to a GET is rewritten as a playlist
\* exactly when its Content-Type has an MPEG-URL marker or the path
\* component of the upstream URL ends in .m3u8; every other one is relayed
C26_PlaylistDetection ==
    (req.method = "GET" /\ resp.by = "handler" /\ resp.status # 0 /\ resp.cause = "none"
         /\ IsOk(upstream.status)) =>
        LET isPlaylist == \/ upstream.answer.ctype \in MpegUrlTypes
                          \/ EndsWith(PathOf(NewURL(upstream.url)), <<".m3u8">>)
        IN IF isPlaylist THEN resp.body = "playlist" ELSE resp.body = "stream"

\* the defaults overlaid with the caller's object, the caller's value
\* winning under every name the two share, whatever its spelling
Overlay(q) ==
    LET d == Defaults("server_v1") IN
    [n \in {Lower(k) : k \in DOMAIN d \cup q.names} |->
        IF \E k \in q.names : Lower(k) = n THEN <<CallerValue>>
        ELSE <<d[CHOOSE k \in DOMAIN d : Lower(k) = n]>>]

\* C27: the headers sent upstream are the defaults (User-Agent, Referer
\* ' ', seekable '0') overlaid with the caller's `headers` object, the
\* caller winning for every name present in both, in any letter case, and
\* no default dropped otherwise; with an absent, undecodable or unparsable
\* `headers` value the defaults alone are sent
C27_CallerHeadersOverlayDefaults ==
    hq.done =>
        hq.sent = IF hq.query.kind = "json" THEN Overlay(hq.query) ELSE Overlay(NoQuery)

\* C28: the Access-Control-Allow-Origin of every /proxy response is '*' or
\* the Origin of the request, and the Origin is reflected only when it is
\* one of the allow-listed origins
C28_OriginReflectedOnlyIfListed ==
    resp.status # 0 =>
        \/ resp.cors.acao = <<"*">>
        \/ resp.cors.acao = req.origin /\ req.origin \in allowedOrigins

\* C29: when the client has disconnected while its upstream fetch was
\* pending or its body was being read or relayed, the upstream call is
\* aborted: no upstream operation of the request is open any more
C29_DisconnectAbortsUpstream ==
    resp.closed => ~upstream.open

\* C30: every request gets exactly one response from the server: no path
\* starts a second response, also not when an error comes after the
\* response headers were set or after the relay began, and once the handler
\* has returned (the request is done, or its body is being relayed) a
\* response has been started
Returned == hpc \in {"done", "pipe", "hung", "crashed"}
C30_ExactlyOneResponse ==
    /\ resp.sends <= 1
    /\ Returned => resp.sends = 1
\* the playlist body failed after Content-Type and Content-Length were set
C30_Witness ==
    /\ hpc = "done" /\ resp.cause = "body" /\ resp.headers.ctype # ""
    /\ resp.sends = 1 /\ resp.status \in {500, 503}

\* C6: every input error of a GET/HEAD /proxy request is answered 400,
\* never 503 or 500
C6_InputErrorsAre400 ==
    (req.method \in {"GET", "HEAD"} /\ hpc = "done" /\ InputError(req.raw)) => resp.status = 400

\* C7: when the upstream answers with a non-2xx status S the proxy responds
\* with status S and a JSON error body
C7_UpstreamStatusPropagated ==
    (hpc = "done" /\ upstream.status # 0 /\ ~IsOk(upstream.status)
         /\ resp.cause \notin {"transport", "timeout"}) =>
        /\ resp.status = upstream.status
        /\ resp.body = "json"

\* C8: a transport failure of the upstream call, or the expiry of the
\* 30-second budget before it completed, is answered 503 with a JSON body
\* carrying error, message, url and upstream status (no body for HEAD); the
\* upstream call is aborted and the abort timer is no longer armed
C8_TransportFailureIs503 ==
    (hpc = "done" /\ resp.cause \in {"transport", "timeout"}) =>
        /\ resp.status = 503
        /\ IF req.method = "HEAD" THEN resp.body = "empty"
           ELSE resp.body = "json" /\ {"error", "message", "url", "upstreamStatus"} \subseteq resp.keys
        /\ resp.cause = "timeout" => ~upstream.open
        /\ timer # "armed"

\* C9: no upstream operation remains open past the timeout boundary
C9_NothingOpenPastTimeout ==
    upstream.open => elapsed <= TimeoutSteps

\* ------------------------------------------------------------------------
\* Specifications
\* ------------------------------------------------------------------------
CacheIdle ==
    /\ impl = "addon"
    /\ now = T0
    /\ ticks = 0
    /\ calls = 0
    /\ cache = [c \in Caches |-> EmptyEntry]
    /\ procs = [p \in Procs |-> IF p = TimerId THEN [IdleProc EXCEPT !.tnow = T0] ELSE IdleProc]
    /\ lastRefresh = NoRefresh
    /\ lastReturn = NoReturn
    /\ completed = [c \in Caches |-> 0]

\* ------------------------------------------------------------------------
\* The configuration page (config-ui/configure.js)
\* ------------------------------------------------------------------------
\* ui = [allChannels, selectedChannelIds, search, dom, manifest, loaded,
\* error]: dom is the list of the ids of the <li> children of channelList in
\* document order, manifest what updateManifestUrl last wrote: the config
\* text in the manifest URL and in the install link, and aria-disabled.
\* Text is a sequence of characters.
Upper == <<"B", "E", "H", "N", "R", "T", "V", "Z">>
LowerOf == <<"b", "e", "h", "n", "r", "t", "v", "z">>
ToLowerChar(ch) ==
    IF \E i \in 1..Len(Upper) : Upper[i] = ch
    THEN LowerOf[CHOOSE i \in 1..Len(Upper) : Upper[i] = ch] ELSE ch
toLowerCase(text) == [i \in 1..Len(text) |-> ToLowerChar(text[i])]
\* text.includes(term)
Includes(text, term) ==
    \E i \in 0..(Len(text) - Len(term)) : SubSeq(text, i + 1, i + Len(term)) = term

Tvnz1 == [id |-> "mjh-tvnz-1", name |-> <<"T", "V", "N", "Z", " ", "1">>]
Three == [id |-> "mjh-three", name |-> <<"T", "h", "r", "e", "e">>]
Bravo == [id |-> "mjh-bravo", name |-> <<"B", "r", "a", "v", "o">>]
\* a second entry of the feed with the id of the first (the registry keeps
\* both: the parser never compares ids)
Tvnz1Plus == [id |-> "mjh-tvnz-1", name |-> <<"T", "V", "N", "Z", " ", "1", "+">>]
\* an id made from a name outside Latin-1 (a with macron, U+0101)
Maori == [id |-> "whakaata-m<U+0101>ori", name |-> <<"M", "a", "o", "r", "i">>]
Catalogs == { <<>>, <<Tvnz1, Three, Bravo>>, <<Tvnz1, Three, Tvnz1Plus>>, <<Three, Maori>> }
SearchTexts == { <<>>, <<"T", "V">>, <<"r">>, <<"x">> }

IdsOf(chs) == [i \in 1..Len(chs) |-> chs[i].id]
Has(ids, id) == \E i \in 1..Len(ids) : ids[i] = id
\* ids.indexOf(id)
indexOf(ids, id) == IF Has(ids, id) THEN (CHOOSE i \in 1..Len(ids) : ids[i] = id /\ \A j \in 1..(i - 1) : ids[j] # id) - 1 ELSE -1
\* Array.prototype.sort with the comparator  key(a) - key(b): stable
Rank(keys, i) == Cardinality({j \in 1..Len(keys) : keys[j] < keys[i] \/ (keys[j] = keys[i] /\ j < i)}) + 1
SortByKey(seq, keys) == [r \in 1..Len(seq) |-> seq[CHOOSE i \in 1..Len(seq) : Rank(keys, i) = r]]

\* JSON.stringify({channels: ids}) then btoa: btoa throws
\* InvalidCharacterError for a character outside Latin-1
NonLatin1Ids == {Maori.id}
stringify(ids) == <<"{", "channels", ":", "[">> \o ids \o <<"]", "}">>
base64Encode(ids) ==
    IF \E i \in 1..Len(ids) : ids[i] \in NonLatin1Ids
    THEN [ok |-> FALSE, b64 |-> <<>>]
    ELSE [ok |-> TRUE, b64 |-> <<"btoa">> \o stringify(ids)]
\* JSON.parse(atob(b64)).channels
base64Decode(b64) == SubSeq(b64, 6, Len(b64) - 2)

NoManifest == [set |-> FALSE, config |-> <<>>, disabled |-> FALSE]
\* updateManifestUrl(): an exception of btoa leaves all three untouched
updateManifestUrl(U) ==
    LET enc == base64Encode(U.selectedChannelIds) IN
    IF enc.ok
    THEN [U EXCEPT !.manifest = [set |-> TRUE, config |-> enc.b64,
                                 disabled |-> Len(U.selectedChannelIds) = 0]]
    ELSE [U EXCEPT !.thrown = TRUE]

\* renderChannels()
renderChannels(U) ==
    LET searchTerm == toLowerCase(U.search)
        visibleChannels == SelectSeq(U.allChannels, LAMBDA c : Includes(toLowerCase(c.name), searchTerm))
        selectedChannels == SelectSeq(visibleChannels, LAMBDA c : Has(U.selectedChannelIds, c.id))
        unselectedChannels == SelectSeq(visibleChannels, LAMBDA c : ~Has(U.selectedChannelIds, c.id))
        keys == [i \in 1..Len(selectedChannels) |-> indexOf(U.selectedChannelIds, selectedChannels[i].id)]
    IN [U EXCEPT !.dom = IdsOf(SortByKey(selectedChannels, keys) \o unselectedChannels)]

\* toggleChannelSelection(id)
toggleChannelSelection(U, id) ==
    LET index == indexOf(U.selectedChannelIds, id)
        ids == U.selectedChannelIds
        spliced == SubSeq(ids, 1, index) \o SubSeq(ids, index + 2, Len(ids))
    IN updateManifestUrl(renderChannels(
          [U EXCEPT !.selectedChannelIds = IF index > -1 THEN spliced ELSE Append(ids, id)]))

handleSelectAll(U) ==
    updateManifestUrl(renderChannels([U EXCEPT !.selectedChannelIds = IdsOf(U.allChannels)]))
handleDeselectAll(U) ==
    updateManifestUrl(renderChannels([U EXCEPT !.selectedChannelIds = <<>>]))
handleReset(U) ==
    updateManifestUrl(renderChannels([U EXCEPT !.selectedChannelIds = IdsOf(U.allChannels),
                                               !.search = <<>>]))

\* Sortable moves the dragged child from position i to position j
Move(seq, i, j) ==
    LET rest == SubSeq(seq, 1, i - 1) \o SubSeq(seq, i + 1, Len(seq))
    IN SubSeq(rest, 1, j - 1) \o <<seq[i]>> \o SubSeq(rest, j, Len(rest))
\* onEnd of the Sortable: the new order is read back from the DOM
onEnd_NoUpdate(U) ==
    [U EXCEPT !.selectedChannelIds = SelectSeq(U.dom, LAMBDA id : Has(U.selectedChannelIds, id))]
onEnd(U) ==
    LET newOrder == SelectSeq(U.dom, LAMBDA id : Has(U.selectedChannelIds, id))
    IN updateManifestUrl([U EXCEPT !.selectedChannelIds = newOrder])

\* the .then chain of the catalog fetch
Loaded(U, metas) ==
    LET U1 == renderChannels([U EXCEPT !.allChannels = metas, !.selectedChannelIds = IdsOf(metas),
                                       !.loaded = TRUE])
        U2 == updateManifestUrl(U1)
    IN IF U2.thrown THEN [U2 EXCEPT !.error = TRUE, !.thrown = FALSE]
       ELSE [U2 EXCEPT !.sortable = TRUE, !.error = FALSE]

NoUi == [allChannels |-> <<>>, selectedChannelIds |-> <<>>, search |-> <<>>, dom |-> <<>>,
         manifest |-> NoManifest, loaded |-> FALSE, fetched |-> FALSE, sortable |-> FALSE,
         error |-> FALSE, thrown |-> FALSE, last |-> "none", before |-> <<>>]
UiIdle == ui = NoUi
UiInit == ui = NoUi

\* an event handler has run: an exception that left it is reported to the
\* console and forgotten
After(U, ev) == [U EXCEPT !.thrown = FALSE, !.last = ev, !.before = ui.selectedChannelIds]

CatalogArrives(metas) ==
    /\ ~ui.fetched
    /\ ui' = After([Loaded(ui, metas) EXCEPT !.fetched = TRUE], "load")
    /\ UNCHANGED <<cacheVars, rw, proxyVars, rl, gu, m3u>>
\* the catalog request fails, or answers with a non-2xx status
CatalogFails ==
    /\ ~ui.fetched
    /\ ui' = After([ui EXCEPT !.fetched = TRUE, !.error = TRUE], "loadfail")
    /\ UNCHANGED <<cacheVars, rw, proxyVars, rl, gu, m3u>>
\* the checkbox of the i-th list item changes
Toggle(i) ==
    /\ i \in 1..Len(ui.dom)
    /\ ui' = After(toggleChannelSelection(ui, ui.dom[i]), "toggle")
    /\ UNCHANGED <<cacheVars, rw, proxyVars, rl, gu, m3u>>
SelectAll ==
    /\ ui' = After(handleSelectAll(ui), "selectAll")
    /\ UNCHANGED <<cacheVars, rw, proxyVars, rl, gu, m3u>>
DeselectAll ==
    /\ ui' = After(handleDeselectAll(ui), "deselectAll")
    /\ UNCHANGED <<cacheVars, rw, proxyVars, rl, gu, m3u>>
Reset ==
    /\ ui' = After(handleReset(ui), "reset")
    /\ UNCHANGED <<cacheVars, rw, proxyVars, rl, gu, m3u>>
SearchInput(text) ==
    /\ text # ui.search
    /\ ui' = After(renderChannels([ui EXCEPT !.search = text]), "search")
    /\ UNCHANGED <<cacheVars, rw, proxyVars, rl, gu, m3u>>
Drag(i, j) ==
    /\ ui.sortable
    /\ i \in 1..Len(ui.dom) /\ j \in 1..Len(ui.dom)
    /\ ui' = After(onEnd([ui EXCEPT !.dom = Move(ui.dom, i, j)]), "drag")
    /\ UNCHANGED <<cacheVars, rw, proxyVars, rl, gu, m3u>>

MaxItems == 3
UiNext ==
    \/ \E metas \in Catalogs : CatalogArrives(metas)
    \/ CatalogFails
    \/ \E i \in 1..MaxItems : Toggle(i)
    \/ SelectAll
    \/ DeselectAll
    \/ Reset
    \/ \E text \in SearchTexts : SearchInput(text)
    \/ \E i, j \in 1..MaxItems : Drag(i, j)

\* ------------------------------------------------------------------------
\* Properties of the configuration page
\* ------------------------------------------------------------------------
Members(ids) == {ids[i] : i \in 1..Len(ids)}
NoDuplicates(ids) == \A i, j \in 1..Len(ids) : ids[i] = ids[j] => i = j

\* C33: a drag-and-drop reorder changes the order of selectedChannelIds
\* only: the set of selected ids after the drag is the set before it,
\* whatever the search filter shows or hides
C33_DragKeepsMembership ==
    ui.last = "drag" => Members(ui.selectedChannelIds) = Members(ui.before)

\* C34 (as stated): once channels are loaded, after every action the
\* selection has no duplicates and only loaded ids, the manifest URL and the
\* install link encode exactly the selection in its order, and the install
\* link is disabled exactly when the selection is empty
SelectionInvariant ==
    /\ NoDuplicates(ui.selectedChannelIds)
    /\ Members(ui.selectedChannelIds) \subseteq Members(IdsOf(ui.allChannels))
    /\ ui.manifest.set
    /\ base64Decode(ui.manifest.config) = ui.selectedChannelIds
    /\ ui.manifest.disabled <=> (Len(ui.selectedChannelIds) = 0)
WellFormed(chs) ==
    NoDuplicates(IdsOf(chs)) /\ Members(IdsOf(chs)) \cap NonLatin1Ids = {}
MaxRegistry == 3
MaxConfig == 2
NZ_CHANNEL_ORDER == <<"mjh-tvnz-1", "mjh-tvnz-2", "mjh-three", "mjh-bravo">>
ChannelPool ==
    { [id |-> "mjh-tvnz-1", name |-> "TVNZ 1", chno |-> 1],
      [id |-> "mjh-three", name |-> "Three", chno |-> 3],
      [id |-> "mjh-al-jazeera", name |-> "Al Jazeera", chno |-> 20],
      [id |-> "mjh-zed", name |-> "Zed", chno |-> 20],
      [id |-> "mjh-parliament", name |-> "Parliament TV", chno |-> 0] }
ConfigIds == {ch.id : ch \in ChannelPool} \cup {"mjh-gone"}
Registries ==
    {r \in UNION {[1..n -> ChannelPool] : n \in 0..MaxRegistry} :
        \A i, j \in 1..Len(r) : r[i] = r[j] => i = j}
NoConfig == [present |-> FALSE, channels |-> <<>>]
Configs == {NoConfig} \cup {[present |-> TRUE, channels |-> c] :
                              c \in UNION {[1..n -> ConfigIds] : n \in 0..MaxConfig}}

\* a.localeCompare(b) on the names of the pool: -1, 0 or 1
Collation == <<"Al Jazeera", "Parliament TV", "Three", "TVNZ 1", "Zed">>
localeCompare(a, b) ==
    LET pos(x) == CHOOSE i \in 1..Len(Collation) : Collation[i] = x
    IN IF pos(a) < pos(b) THEN -1 ELSE IF pos(a) > pos(b) THEN 1 ELSE 0
getLcn(meta) == IF meta.chno # 0 THEN meta.chno ELSE 9999
lcnSort(a, b) ==
    LET aIndex == indexOf(NZ_CHANNEL_ORDER, a.id)
        bIndex == indexOf(NZ_CHANNEL_ORDER, b.id)
        lcnDiff == getLcn(a) - getLcn(b)
    IN IF aIndex # -1 /\ bIndex # -1 THEN aIndex - bIndex
       ELSE IF aIndex # -1 THEN -1
       ELSE IF bIndex # -1 THEN 1
       ELSE IF lcnDiff = 0 THEN localeCompare(a.name, b.name)
       ELSE lcnDiff
\* Array.prototype.sort(lcnSort): stable
Place(seq, i) ==
    Cardinality({j \in 1..Len(seq) : lcnSort(seq[j], seq[i]) < 0
                                       \/ (lcnSort(seq[j], seq[i]) = 0 /\ j < i)}) + 1
SortLcn(seq) == [r \in 1..Len(seq) |-> seq[CHOOSE i \in 1..Len(seq) : Place(seq, i) = r]]
\* [...allChannels].sort(lcnSort): the copy is sorted, the argument is not
SortedCopy_InPlace(allChannels) == [sorted |-> SortLcn(allChannels), arg |-> SortLcn(allChannels)]
SortedCopy(allChannels) == [sorted |-> SortLcn(allChannels), arg |-> allChannels]
\* allChannels.find(c => c.id === id): the first match, or undefined
find(allChannels, id) == SelectSeq(allChannels, LAMBDA c : c.id = id)
RECURSIVE MapFind(_, _)
MapFind(ids, allChannels) ==
    IF ids = <<>> THEN <<>>
    ELSE LET hit == find(allChannels, Head(ids))
         IN (IF hit = <<>> THEN <<>> ELSE <<hit[1]>>) \o MapFind(Tail(ids), allChannels)
\* returns the channels, userSorted, and the argument array as it is left
getUserChannels(config, allChannels) ==
    IF config.present
    THEN [channels |-> MapFind(config.channels, allChannels), userSorted |-> TRUE,
          arg |-> allChannels]
    ELSE LET c == SortedCopy(allChannels)
         IN [channels |-> c.sorted, userSorted |-> FALSE, arg |-> c.arg]

NoResult == [channels |-> <<>>, userSorted |-> FALSE, arg |-> <<>>]
UserIdle == gu = [config |-> NoConfig, allChannels |-> <<>>, done |-> FALSE, out |-> NoResult]
UserInit == gu \in [config : Configs, allChannels : Registries, done : {FALSE}, out : {NoResult}]
\* the catalog handler calls getUserChannels(args, channels)
CallGetUserChannels ==
    /\ ~gu.done
    /\ gu' = [gu EXCEPT !.done = TRUE, !.out = getUserChannels(gu.config, gu.allChannels)]
    /\ UNCHANGED <<cacheVars, rw, proxyVars, ui, rl, m3u>>
UserNext == CallGetUserChannels

\* C35: with a config the result is the configured ids that exist in the
\* registry, in the configured order, each as its registry channel; without
\* one it is every registry channel exactly once, in lcnSort order; the
\* registry array is left as it was
Known(ids, allChannels) == SelectSeq(ids, LAMBDA id : Has(IdsOf(allChannels), id))
IsPermutation(a, b) ==
    /\ Len(a) = Len(b)
    /\ \E p \in [1..Len(a) -> 1..Len(a)] :
          /\ \A i, j \in 1..Len(a) : p[i] = p[j] => i = j
          /\ \A i \in 1..Len(a) : a[i] = b[p[i]]
C35_UserChannels ==
    gu.done =>
        /\ gu.out.arg = gu.allChannels
        /\ gu.config.present =>
              /\ IdsOf(gu.out.channels) = Known(gu.config.channels, gu.allChannels)
              /\ \A i \in 1..Len(gu.out.channels) :
                    \E k \in 1..Len(gu.allChannels) : gu.out.channels[i] = gu.allChannels[k]
        /\ ~gu.config.present =>
              /\ IsPermutation(gu.out.channels, gu.allChannels)
              /\ \A i, j \in 1..Len(gu.out.channels) :
                    i < j => lcnSort(gu.out.channels[i], gu.out.channels[j]) <= 0
\* an unsorted registry without a config, and a config with an unknown id
C35_Witness ==
    /\ gu.done /\ ~gu.config.present
    /\ Len(gu.allChannels) = MaxRegistry /\ gu.out.channels # gu.allChannels
C35_WitnessConfig ==
    /\ gu.done /\ gu.config.present /\ Has(gu.config.channels, "mjh-gone")
    /\ Len(gu.out.channels) = 1 /\ Len(gu.config.channels) = 2

\* ------------------------------------------------------------------------
\* The M3U parser of updateChannelCache on arbitrary documents
\* ------------------------------------------------------------------------
\* UrlLine("") is a line of white space only: not empty, no comment, and
\* trimmed to the empty string
MaxFeedLines == 3
ParseLines ==
    { ExtInf("mjh-tvnz-1", "", "TVNZ 1"), ExtInf("", "three", "Three"), ExtInf("", "", "Bravo"),
      ExtInf("", "", ""), ExtInf("mjh-x", "", ""),
      UrlLine("u1"), UrlLine("u2"), UrlLine(""), CommentLine, BlankLine }
Documents == UNION {[1..n -> ParseLines] : n \in 0..MaxFeedLines}
ParseIdle == m3u = [lines |-> <<>>, channels |-> <<>>, done |-> FALSE]
ParseInit == m3u \in [lines : Documents, channels : {<<>>}, done : {FALSE}]
\* the loop over the lines of the fetched text
ParseDocument ==
    /\ ~m3u.done
    /\ m3u' = [m3u EXCEPT !.done = TRUE, !.channels = ParseM3U(m3u.lines)]
    /\ UNCHANGED <<cacheVars, rw, proxyVars, ui, rl, gu>>
ParseNext == ParseDocument

\* C36: every channel of a parsed snapshot has a non-empty id, name and
\* url; the channels correspond, in order, to distinct #EXTINF lines each
\* followed, with no #EXTINF in between, by the non-empty non-comment line
\* that is the channel's url; so an #EXTINF without such a line and a URL
\* line without an #EXTINF yield nothing, and there are never more channels
\* than #EXTINF lines
ExtInfLines(lines) == {i \in 1..Len(lines) : lines[i].t = "EXTINF"}
C36_ChannelsAreComplete ==
    m3u.done =>
        LET L == m3u.lines
            C == m3u.channels
            n == Len(C)
        IN /\ \A k \in 1..n : C[k].id # "" /\ C[k].name # "" /\ C[k].url # ""
           /\ n <= Cardinality(ExtInfLines(L))
           /\ \E e \in [1..n -> 1..Len(L)], u \in [1..n -> 1..Len(L)] :
                 \A k \in 1..n :
                    /\ e[k] \in ExtInfLines(L) /\ e[k] < u[k]
                    /\ ExtInfLines(L) \cap (e[k] + 1)..u[k] = {}
                    /\ L[u[k]].t = "URL" /\ L[u[k]].url = C[k].url
                    /\ L[e[k]].name = C[k].name
                    /\ k < n => u[k] < e[k + 1]
\* a stray URL line, then a complete entry
C36_Witness ==
    /\ m3u.done /\ Len(m3u.channels) = 1 /\ Len(m3u.lines) = 3
    /\ m3u.lines[1].t = "URL" /\ m3u.lines[2].t = "EXTINF" /\ m3u.lines[3].t = "URL"

\* ------------------------------------------------------------------------
\* Rate limiting and proxy health of resilientFetch (addon.js)
\* ------------------------------------------------------------------------
\* rl = [now, ticks, total, byProxy, lastReset, lastFire, health, procs,
\* issued, issuedBy, last]: requestCounts and proxyHealth, the invocations
\* of resilientFetch (procs), and a record of what went out: issued /
\* issuedBy count the fetches issued since the last reset, last holds the
\* counts the latest fetch found when it was issued.
Fetchers == {1, 2}
NoProxy == "direct"
ProxySet == {PUBLIC_PROXY_URLS[i] : i \in 1..Len(PUBLIC_PROXY_URLS)}

isRateLimited_Never(R, proxy) == FALSE
isRateLimited(R, proxy) ==
    \/ R.total >= maxRequestsPerMinute
    \/ (proxy # NoProxy /\ R.byProxy[proxy] >= maxRequestsPerProxy)

incrementRequestCount(R, proxy) ==
    [R EXCEPT !.total = @ + 1,
              !.byProxy = IF proxy # NoProxy THEN [@ EXCEPT ![proxy] = @ + 1] ELSE @]

Max(a, b) == IF a >= b THEN a ELSE b

updateProxyHealth(R, proxy, success) ==
    [R EXCEPT !.health[proxy] =
        IF success
        THEN [success |-> @.success + 1, failure |-> Max(0, @.failure - 1), lastUsed |-> R.now]
        ELSE [success |-> @.success, failure |-> @.failure + 1, lastUsed |-> R.now]]

\* score = (success / total) * (1 + (now - lastUsed) / 60000), 0 when unused;
\* two scores are compared as cross-multiplied integers, the common positive
\* factor 1/60000 dropped
ScoreNum(h, t) == IF h.success + h.failure > 0 THEN h.success * (60000 + (t - h.lastUsed)) ELSE 0
ScoreDen(h) == IF h.success + h.failure > 0 THEN h.success + h.failure ELSE 1
ScoreGreater(ha, hb, t) == ScoreNum(ha, t) * ScoreDen(hb) > ScoreNum(hb, t) * ScoreDen(ha)

\* proxies.sort(...)[0]: the sort is stable, so the best proxy is the first
\* one in list order that no other proxy beats
getBestProxy(R) ==
    LET n == Len(PUBLIC_PROXY_URLS)
        ph == R.health
        best == CHOOSE i \in 1..n :
                  /\ \A j \in 1..n : ~ScoreGreater(ph[PUBLIC_PROXY_URLS[j]], ph[PUBLIC_PROXY_URLS[i]], R.now)
                  /\ \A j \in 1..(i - 1) : ScoreGreater(ph[PUBLIC_PROXY_URLS[i]], ph[PUBLIC_PROXY_URLS[j]], R.now)
    IN PUBLIC_PROXY_URLS[best]

\* [getBestProxy(), ...PUBLIC_PROXY_URLS.filter(p => p !== getBestProxy())]
ProxyList(R) ==
    LET b == getBestProxy(R)
    IN <<b>> \o SelectSeq(PUBLIC_PROXY_URLS, LAMBDA p : p # b)

\* incrementRequestCount(proxy) and the fetch(...) that follows it, for
\* invocation p, to the feed or through a proxy
Issue(R, p, proxy, pc) ==
    [incrementRequestCount(R, proxy) EXCEPT !.procs[p].pc = pc, !.procs[p].fetches = @ + 1,
              !.issued = @ + 1,
              !.issuedBy = IF proxy # NoProxy THEN [@ EXCEPT ![proxy] = @ + 1] ELSE @,
              !.last = [set |-> TRUE, proxy |-> proxy, total |-> R.total,
                        byProxy |-> IF proxy # NoProxy THEN R.byProxy[proxy] ELSE 0]]

\* resilientFetch returns a response or throws; what is kept of the
\* invocation is the number of fetches it made
Ended(pr, result) == [pr EXCEPT !.pc = "done", !.result = result, !.list = <<>>, !.idx = 0]

\* the for loop over the proxies from position idx of the list, up to the
\* next await or to the throw after the loop
RECURSIVE ProxyLoop(_, _, _)
ProxyLoop(R, p, idx) ==
    LET list == R.procs[p].list IN
    IF idx > Len(list)
    THEN [R EXCEPT !.procs[p] = Ended(@, "thrown")]
    ELSE IF isRateLimited(R, list[idx]) THEN ProxyLoop(R, p, idx + 1)
    ELSE Issue([R EXCEPT !.procs[p].idx = idx], p, list[idx], "proxy")

\* the code between the direct attempt and the first proxy fetch
AfterDirect(R, p) ==
    ProxyLoop([R EXCEPT !.procs[p].list = ProxyList(R)], p, 1)

\* resilientFetch(url) up to its first await
resilientFetch(R, p) ==
    LET R1 == [R EXCEPT !.procs[p] = [pc |-> "start", list |-> <<>>, idx |-> 0, fetches |-> 0,
                                      result |-> "none"]]
    IN IF isRateLimited(R1, NoProxy) THEN AfterDirect(R1, p)
       ELSE Issue(R1, p, NoProxy, "direct")

\* resilientFetch resumes with the outcome o of the fetch it awaited
AfterResponse(R, p, o) ==
    LET pr == R.procs[p]
        proxy == pr.list[pr.idx]
        returned == [R EXCEPT !.procs[p] = Ended(@, "2xx")]
    IN IF pr.pc = "direct"
       THEN IF o = "ok" THEN returned ELSE AfterDirect(R, p)
       ELSE CASE o = "ok" -> updateProxyHealth(returned, proxy, TRUE)
              [] o = "notok" -> ProxyLoop(R, p, pr.idx + 1)
              [] o = "throw" -> ProxyLoop(updateProxyHealth(R, proxy, FALSE), p, pr.idx + 1)

\* the setInterval callback that resets the counts
ResetCallback(R) ==
    IF R.now - R.lastReset > RESET_PERIOD
    THEN [R EXCEPT !.total = 0, !.byProxy = [q \in ProxySet |-> 0], !.lastReset = R.now,
                   !.lastFire = R.now, !.issued = 0, !.issuedBy = [q \in ProxySet |-> 0]]
    ELSE [R EXCEPT !.lastFire = R.now]

NoHealth == [success |-> 0, failure |-> 0, lastUsed |-> 0]
IdleFetcher == [pc |-> "idle", list |-> <<>>, idx |-> 0, fetches |-> 0, result |-> "none"]
NoIssue == [set |-> FALSE, proxy |-> NoProxy, total |-> 0, byProxy |-> 0]
FreshLimiter ==
    [now |-> T0, ticks |-> 0, total |-> 0, byProxy |-> [q \in ProxySet |-> 0], lastReset |-> T0, lastFire |-> T0,
     health |-> [q \in ProxySet |-> NoHealth],
     procs |-> [p \in Fetchers |-> IdleFetcher],
     issued |-> 0, issuedBy |-> [q \in ProxySet |-> 0], last |-> NoIssue]
\* the limiter within one minute of start-up after n calls of one kind, each
\* completed before the next: "direct" answered 2xx by the feed; "first"
\* failed directly and answered 2xx by the first proxy; "none" failed on
\* every attempt
Histories == {<<"direct", 0>>, <<"direct", maxRequestsPerMinute - 1>>,
              <<"first", maxRequestsPerProxy - 1>>, <<"none", maxRequestsPerProxy - 1>>}
LimiterAfter(kind, n) ==
    LET first == PUBLIC_PROXY_URLS[1]
        each == [q \in ProxySet |-> n]
        only == [q \in ProxySet |-> IF q = first THEN n ELSE 0]
    IN CASE kind = "direct" -> [FreshLimiter EXCEPT !.total = n, !.issued = n]
         [] kind = "first" ->
              [FreshLimiter EXCEPT !.total = 2 * n, !.issued = 2 * n, !.byProxy = only, !.issuedBy = only,
                                   !.health[first] = [success |-> n, failure |-> 0, lastUsed |-> T0]]
         [] kind = "none" ->
              [FreshLimiter EXCEPT !.total = (1 + Len(PUBLIC_PROXY_URLS)) * n,
                                   !.issued = (1 + Len(PUBLIC_PROXY_URLS)) * n,
                                   !.byProxy = each, !.issuedBy = each,
                                   !.health = [q \in ProxySet |-> [success |-> 0, failure |-> n, lastUsed |-> T0]]]
LimiterIdle == rl = FreshLimiter
LimiterInit == rl \in {LimiterAfter(h[1], h[2]) : h \in Histories}

\* the cache refresh calls resilientFetch
CallResilientFetch(p) ==
    /\ rl.procs[p].pc = "idle"
    /\ rl' = resilientFetch(rl, p)
    /\ UNCHANGED <<cacheVars, rw, proxyVars, ui, gu, m3u>>
\* the fetch p awaits settles: 2xx, another status, or a rejection
\* (network error, the 10 s timeout)
FetchSettled(p, o) ==
    /\ rl.procs[p].pc \in {"direct", "proxy"}
    /\ rl' = AfterResponse(rl, p, o)
    /\ UNCHANGED <<cacheVars, rw, proxyVars, ui, gu, m3u>>
\* a minute passes and the reset interval fires
ResetFires ==
    /\ rl.ticks < MaxTicks
    /\ rl' = ResetCallback([rl EXCEPT !.now = @ + RESET_PERIOD + 1, !.ticks = @ + 1])
    /\ UNCHANGED <<cacheVars, rw, proxyVars, ui, gu, m3u>>
LimiterNext ==
    \/ \E p \in Fetchers : CallResilientFetch(p)
    \/ \E p \in Fetchers, o \in Outcomes : FetchSettled(p, o)
    \/ ResetFires

\* the registry cache
\* (the variables of the other components take no part in it)
Unused == <<>>
CacheAlone ==
    /\ rw = Unused /\ variant = "v1" /\ req = Unused /\ hpc = "done" /\ resp = Unused
    /\ timer = "unset" /\ upstream = Unused /\ elapsed = 0 /\ conn = Unused /\ alive = TRUE
    /\ hq = Unused /\ ui = Unused /\ rl = Unused /\ gu = Unused /\ m3u = Unused
InitCache == CacheInit /\ CacheAlone
SpecCache == InitCache /\ [][CacheNext]_vars

\* the registry cache with the progress the code guarantees.  addon.js
\* passes timeout: 10000 to every fetch of resilientFetch, and node-fetch
\* applies it to the response and to the reading of its body, so each of
\* its fetches and body reads settles; the timer callback continues once
\* its await is over.  The promise revision calls fetch(M3U_URL) and
\* text() without a timeout: nothing makes them settle.
CacheFairness ==
    /\ WF_vars(TimerNext)
    /\ \A p \in Procs : WF_vars(impl = "addon" /\ \E o \in Outcomes : FetchResponds(p, o))
    /\ \A p \in Procs :
          WF_vars(impl = "addon"
                    /\ \E pl \in Payloads("channel", TRUE) \cup Payloads("epg", TRUE) : BodyArrives(p, pl))
SpecCacheLive == InitCache /\ [][CacheNext]_vars /\ CacheFairness

\* the playlist rewriter
InitRewrite == RewriteInit /\ CacheIdle /\ ProxyIdle /\ HeadersIdle /\ UiIdle /\ LimiterIdle /\ UserIdle /\ ParseIdle
SpecRewrite == InitRewrite /\ [][RewriteNext]_vars

\* the streaming proxy
InitProxy == ProxyInit /\ CacheIdle /\ RewriteIdle /\ HeadersIdle /\ UiIdle /\ LimiterIdle /\ UserIdle /\ ParseIdle
SpecProxy == InitProxy /\ [][ProxyNext]_vars

\* two simultaneous proxy requests
InitPair == PairInit /\ HeadersIdle /\ UiIdle /\ LimiterIdle /\ UserIdle /\ ParseIdle
SpecPair == InitPair /\ [][PairNext]_vars

\* the headers of the upstream request
InitHeaders == HeadersInit /\ CacheIdle /\ RewriteIdle /\ ProxyIdle /\ UiIdle /\ LimiterIdle /\ UserIdle /\ ParseIdle
SpecHeaders == InitHeaders /\ [][HeadersNext]_vars

\* C37: the counts stay within their limits (total at most
\* maxRequestsPerMinute, each proxy at most maxRequestsPerProxy), no fetch
\* goes out while the limit that applies to it is reached, and every fetch
\* issued since the last reset is counted exactly once
C37_CountsWithinLimits ==
    /\ rl.total <= maxRequestsPerMinute
    /\ \A q \in ProxySet : rl.byProxy[q] <= maxRequestsPerProxy
    /\ rl.last.set =>
          /\ rl.last.total < maxRequestsPerMinute
          /\ rl.last.proxy # NoProxy => rl.last.byProxy < maxRequestsPerProxy
    /\ rl.issued = rl.total
    /\ \A q \in ProxySet : rl.issuedBy[q] = rl.byProxy[q]
\* both limits are reached and a call has ended without any fetch
C37_Witness ==
    /\ rl.total = maxRequestsPerMinute
    /\ \A q \in ProxySet : rl.byProxy[q] = maxRequestsPerProxy
    /\ \E p \in Fetchers : rl.procs[p].pc = "done" /\ rl.procs[p].fetches = 0
                             /\ rl.procs[p].result = "thrown"

\* C38: a resilientFetch call makes at most maxAttempts fetches, ends by
\* returning a 2xx response or by throwing, and throws only after its last
\* attempt
C38_AtMostMaxAttempts ==
    \A p \in Fetchers :
        /\ rl.procs[p].fetches <= maxAttempts
        /\ rl.procs[p].pc = "done" => rl.procs[p].result \in {"2xx", "thrown"}

\* resilientFetch and its rate limiter
InitLimiter == LimiterInit /\ CacheIdle /\ RewriteIdle /\ ProxyIdle /\ HeadersIdle /\ UiIdle /\ UserIdle /\ ParseIdle
SpecLimiter == InitLimiter /\ [][LimiterNext]_vars

\* the M3U parser
InitParse == ParseInit /\ CacheIdle /\ RewriteIdle /\ ProxyIdle /\ HeadersIdle /\ UiIdle /\ LimiterIdle /\ UserIdle
SpecParse == InitParse /\ [][ParseNext]_vars

\* the user's channel list
InitUser == UserInit /\ CacheIdle /\ RewriteIdle /\ ProxyIdle /\ HeadersIdle /\ UiIdle /\ LimiterIdle /\ ParseIdle
SpecUser == InitUser /\ [][UserNext]_vars

\* the configuration page
InitUi == UiInit /\ CacheIdle /\ RewriteIdle /\ ProxyIdle /\ HeadersIdle /\ LimiterIdle /\ UserIdle /\ ParseIdle
SpecUi == InitUi /\ [][UiNext]_vars

====
